---------------------------- MODULE Spec2Model ----------------------------
(***************************************************************************)
(* Model of the Micro-Entrepreneur Growth App frontend: the page           *)
(* components CustomersPage, CustomerDetailPage, ProfilePage and           *)
(* DigitalPresenceBuilder, and the REST client ApiService they call.       *)
(*                                                                         *)
(* A JavaScript string is modelled as a sequence of one-character strings. *)
(* An optional value (null / undefined) is a sequence of length 0 or 1.    *)
(* Every asynchronous handler is a task: a record holding the values its   *)
(* closure captured when it was invoked, its position (the await it is     *)
(* suspended at) and the requests it has outstanding.                      *)
(***************************************************************************)
EXTENDS Integers, Sequences, FiniteSets, TLC

VARIABLES
    cp,       \* CustomersPage component state (useState cells)
    cd,       \* CustomerDetailPage component state
    pp,       \* ProfilePage component state
    dp,       \* DigitalPresenceBuilder component state
    tasks,    \* running handler invocations, by slot
    out,      \* what the last step showed the user (alert, toast, navigation)
    settled,  \* the backend request the last step consumed the response of
    api,      \* ApiService call under observation
    app       \* App component state (useState cells)

vars == <<cp, cd, pp, dp, tasks, out, settled, api, app>>

-----------------------------------------------------------------------------
(* Strings *)

Digit == {"0", "1", "2", "3", "4", "5", "6", "7", "8", "9"}
LowerSeq == <<"a", "b", "c", "d", "e", "f", "g", "h", "i", "j", "k", "l", "m",
             "n", "o", "p", "q", "r", "s", "t", "u", "v", "w", "x", "y", "z">>
UpperSeq == <<"A", "B", "C", "D", "E", "F", "G", "H", "I", "J", "K", "L", "M",
             "N", "O", "P", "Q", "R", "S", "T", "U", "V", "W", "X", "Y", "Z">>
Lower == {LowerSeq[i] : i \in 1..Len(LowerSeq)}
Upper == {UpperSeq[i] : i \in 1..Len(UpperSeq)}
Letter == Lower \cup Upper
\* \s of a JavaScript regular expression, restricted to the ASCII blanks
Space == {" ", "\t", "\n"}

Min(S) == CHOOSE x \in S : \A y \in S : x <= y
Max(S) == CHOOSE x \in S : \A y \in S : x >= y

RECURSIVE Flatten(_)
Flatten(ss) == IF ss = <<>> THEN <<>> ELSE Head(ss) \o Flatten(Tail(ss))

\* String.prototype.trim
Trim(s) ==
    LET keep == {i \in 1..Len(s) : s[i] \notin Space}
    IN  IF keep = {} THEN <<>> ELSE SubSeq(s, Min(keep), Max(keep))

\* s.replace(/[...]/g, ''): drop every character of class C
Remove(s, C) == SelectSeq(s, LAMBDA c : c \notin C)
\* s.replace(/[^...]/g, ''): keep only the characters of class C
Keep(s, C) == SelectSeq(s, LAMBDA c : c \in C)

\* index of the last character of the longest run of class-C characters
\* that starts at i (i - 1 when s[i] is not in C): a greedy C*
RunEnd(s, i, C) ==
    Max({e \in (i - 1)..Len(s) : \A j \in i..e : s[j] \in C})
\* the same for a negated class, a greedy [^C]*
RunEndNot(s, i, C) ==
    Max({e \in (i - 1)..Len(s) : \A j \in i..e : s[j] \notin C})

\* String.prototype.includes
Includes(s, t) ==
    \E i \in 1..(Len(s) - Len(t) + 1) : SubSeq(s, i, i + Len(t) - 1) = t

\* String.prototype.toLowerCase (ASCII)
ToLowerCase(s) ==
    [i \in 1..Len(s) |->
        IF s[i] \in Upper
        THEN LowerSeq[CHOOSE k \in 1..Len(UpperSeq) : UpperSeq[k] = s[i]]
        ELSE s[i]]

\* String.prototype.startsWith
StartsWith(s, t) == Len(s) >= Len(t) /\ SubSeq(s, 1, Len(t)) = t

-----------------------------------------------------------------------------
(* Regular expressions of the contact handlers.  match() returns null or  *)
(* the matched text; a match of these patterns is never empty, so null is *)
(* the empty sequence.                                                     *)

MinPhoneLen == 10
MinTldLen == 2
PhoneClass == Digit \cup Space \cup {"-"}
LocalClass == Letter \cup Digit \cup {".", "_", "%", "+", "-"}
DomainClass == Letter \cup Digit \cup {".", "-"}

\* the match chosen among the start positions: the leftmost one
\* (endAt[i] is where the match starting at i ends, 0 when there is none)
Leftmost(s, endAt) ==
    LET starts == {i \in 1..Len(s) : endAt[i] # 0}
    IN  IF starts = {} THEN <<>>
        ELSE SubSeq(s, Min(starts), endAt[Min(starts)])

\* info.match(/(\+?[\d\s-]{10,})/)
PhoneMatch(info) ==
    LET EndAt(i) ==
            LET from == IF info[i] = "+" THEN i + 1 ELSE i
                e == RunEnd(info, from, PhoneClass)
            IN  IF e - from + 1 >= MinPhoneLen THEN e ELSE 0
    IN  Leftmost(info, [i \in 1..Len(info) |-> EndAt(i)])

\* info.match(/([a-zA-Z0-9._%+-]+@[a-zA-Z0-9.-]+\.[a-zA-Z]{2,})/i)
\* The local part is a whole run (it cannot contain '@'); the domain is
\* greedy and backtracks to the last '.' that two or more letters follow.
StdEmailMatch(info) ==
    LET EndAt(i) ==
            IF info[i] \notin LocalClass THEN 0
            ELSE LET at == RunEnd(info, i, LocalClass) + 1
                 IN  IF at > Len(info) \/ info[at] # "@" THEN 0
                     ELSE LET de == RunEnd(info, at + 1, DomainClass)
                              dots == {p \in (at + 2)..de :
                                         /\ info[p] = "."
                                         /\ RunEnd(info, p + 1, Letter) - p >= MinTldLen}
                          IN  IF dots = {} THEN 0
                              ELSE RunEnd(info, Max(dots) + 1, Letter)
    IN  Leftmost(info, [i \in 1..Len(info) |-> EndAt(i)])

\* info.match(/\S+@\S+\.\S+/i)
\* Everything lies in one blank-free token; the last \S+ runs to its end.
LooseEmailMatch(info) ==
    LET EndAt(i) ==
            IF info[i] \in Space THEN 0
            ELSE LET e == RunEndNot(info, i, Space)
                 IN  IF \E at \in (i + 1)..e : \E q \in (at + 2)..(e - 1) :
                            info[at] = "@" /\ info[q] = "."
                     THEN e ELSE 0
    IN  Leftmost(info, [i \in 1..Len(info) |-> EndAt(i)])

\* an extraction that tries the looser pattern before the standard one
EmailMatch_LooseFirst(info) ==
    IF LooseEmailMatch(info) # <<>> THEN LooseEmailMatch(info)
    ELSE StdEmailMatch(info)

\* handleEmail's two-step extraction: the standard pattern, then the looser
EmailMatch(info) ==
    IF StdEmailMatch(info) # <<>> THEN StdEmailMatch(info)
    ELSE LooseEmailMatch(info)

-----------------------------------------------------------------------------
(* What a step shows the user.  href: the URI window.location.href was    *)
(* set to; opened: the URI of a window that window.open opened; alert /   *)
(* toast: the message shown ("" when none) and the text interpolated into *)
(* it; clipboard: the text copied; windowOpen: what a window.open whose    *)
(* result the handler looks at did; page, h: the handler that ran.        *)

Quiet == [page |-> "none", h |-> "none", href |-> <<>>, opened |-> <<>>, alert |-> "",
          alertArg |-> <<>>, toast |-> "", clipboard |-> <<>>, windowOpen |-> ""]

Uri(scheme, to, query) == [scheme |-> scheme, to |-> to, query |-> query]

\* a normalisation that strips the blanks and forgets the dashes
DialNumber_KeepsDashes(phoneNumber) == Remove(phoneNumber, Space)

\* `tel:` number of handleCall and `sms:` number of handleSMS:
\* phoneNumber.replace(/[\s-]/g, '')
DialNumber(phoneNumber) == Remove(phoneNumber, Space \cup {"-"})

\* formattedNumber of handleWhatsApp
WhatsAppNumber(phoneNumber) ==
    IF StartsWith(phoneNumber, <<"+">>)
    THEN Keep(phoneNumber, Digit \cup {"+"})
    ELSE <<"+", "9", "1">> \o Keep(phoneNumber, Digit)

\* CustomersPage.handleCall
CP_handleCallEffect(customer) ==
    LET info == Trim(customer.contact_info)
        phoneMatch == PhoneMatch(info)
    IN  IF phoneMatch # <<>>
        THEN [Quiet EXCEPT !.h = "handleCall",
                 !.href = <<Uri("tel", DialNumber(Trim(phoneMatch)), FALSE)>>]
        ELSE IF Includes(info, <<"@">>)
        THEN [Quiet EXCEPT !.h = "handleCall",
                 !.href = <<Uri("mailto", info, TRUE)>>]
        ELSE [Quiet EXCEPT !.h = "handleCall", !.clipboard = <<info>>,
                 !.alert = "Contact copied to clipboard"]

\* CustomerDetailPage.handleCall (customer is the optional state cell)
CD_handleCallEffect(customer) ==
    IF customer = <<>> THEN [Quiet EXCEPT !.h = "handleCall"]
    ELSE
    LET info == Trim(customer[1].contact_info)
        phoneMatch == PhoneMatch(info)
        emailMatch == StdEmailMatch(info)
    IN  IF phoneMatch # <<>>
        THEN [Quiet EXCEPT !.h = "handleCall",
                 !.href = <<Uri("tel", DialNumber(Trim(phoneMatch)), FALSE)>>]
        ELSE IF Includes(info, <<"@">>)
        THEN IF emailMatch # <<>>
             THEN [Quiet EXCEPT !.h = "handleCall",
                      !.href = <<Uri("mailto", Trim(emailMatch), FALSE)>>]
             ELSE [Quiet EXCEPT !.h = "handleCall"]
        ELSE [Quiet EXCEPT !.h = "handleCall", !.clipboard = <<info>>,
                 !.alert = "Contact copied to clipboard"]

\* handleWhatsApp (the two pages differ only in the greeting text)
handleWhatsAppEffect(customer) ==
    LET info == Trim(customer.contact_info)
        phoneMatch == PhoneMatch(info)
    IN  IF phoneMatch # <<>>
        THEN [Quiet EXCEPT !.h = "handleWhatsApp",
                 !.opened = <<Uri("wa.me", WhatsAppNumber(Trim(phoneMatch)), TRUE)>>]
        ELSE [Quiet EXCEPT !.h = "handleWhatsApp",
                 !.alert = "Invalid phone number for WhatsApp"]

\* handleSMS (the two pages differ only in the message text)
handleSMSEffect(customer) ==
    LET info == Trim(customer.contact_info)
        phoneMatch == PhoneMatch(info)
    IN  IF phoneMatch # <<>>
        THEN [Quiet EXCEPT !.h = "handleSMS",
                 !.opened = <<Uri("sms", DialNumber(Trim(phoneMatch)), TRUE)>>]
        ELSE [Quiet EXCEPT !.h = "handleSMS",
                 !.alert = "Invalid phone number for SMS"]

\* what window.open(mailtoUrl, '_blank') can do: return a window, return
\* null (blocked), or throw
WindowOpenResults == {"window", "null", "throws"}

\* handleEmail (the two pages differ only in subject and body)
handleEmailEffect(customer, opens) ==
    LET info == Trim(customer.contact_info)
        emailMatch == EmailMatch(info)
        mailtoUrl == Uri("mailto", Trim(emailMatch), TRUE)
    IN  IF emailMatch # <<>>
        THEN CASE opens = "window" ->
                    [Quiet EXCEPT !.h = "handleEmail", !.windowOpen = opens,
                        !.opened = <<mailtoUrl>>]
               [] opens = "null" ->
                    [Quiet EXCEPT !.h = "handleEmail", !.windowOpen = opens,
                        !.href = <<mailtoUrl>>]
               [] OTHER ->
                    [Quiet EXCEPT !.h = "handleEmail", !.windowOpen = opens,
                        !.alert = "Please email manually",
                        !.alertArg = Trim(emailMatch)]
        ELSE [Quiet EXCEPT !.h = "handleEmail",
                 !.alert = "No email address available"]

-----------------------------------------------------------------------------
(* Component state after construction (the useState initial values) and   *)
(* the props each component is rendered with.  phase: "absent" while the  *)
(* component is not on screen, "rendered" once constructed, "mounted"     *)
(* once its mount effect has run.                                          *)

Customer(id, name, contact_info) ==
    [id |-> id, name |-> name, contact_info |-> contact_info]

\* CustomersPage: props userId, onViewCustomer; state cells lines 26-41
CP_Construct(userId, onViewCustomer) ==
    [phase |-> "rendered", userId |-> userId, onViewCustomer |-> onViewCustomer,
     searchTerm |-> <<>>, customers |-> <<>>, loading |-> FALSE, error |-> "",
     showAddForm |-> FALSE,
     newCustomer |-> [name |-> <<>>, contact_info |-> <<>>, notes |-> <<>>],
     detailsOpen |-> FALSE, activeCustomer |-> <<>>, interactions |-> <<>>]

\* the default-valued interaction form (resetInteractionForm), reduced to
\* the fields handleInteractionSubmit tests or converts; interaction_date is
\* "now" for a value new Date() can read and "" for a cleared input
EmptyInteractionForm ==
    [interaction_date |-> "now", title |-> <<>>, notes |-> <<>>]

\* CustomerDetailPage: props customerId, userId; state cells lines 93-115;
\* currentInteraction holds the id of the interaction being edited
CD_Construct(customerId, userId) ==
    [phase |-> "rendered", customerId |-> customerId, userId |-> userId,
     customer |-> <<>>, interactions |-> <<>>, customerInteractions |-> <<>>,
     insights |-> <<>>, loading |-> FALSE, error |-> "",
     aiLoading |-> FALSE, aiError |-> "",
     interactionDialogOpen |-> FALSE, isEditMode |-> FALSE,
     currentInteraction |-> <<>>, interactionForm |-> EmptyInteractionForm,
     interactionLoading |-> FALSE]

\* ProfilePage: prop userId; state cells lines 39-46.  formData is
\* reduced to two of its eight fields; a field never set is ""
PP_Construct(userId) ==
    [phase |-> "rendered", userId |-> userId, profile |-> <<>>,
     businessTypes |-> <<>>, loading |-> TRUE, saving |-> FALSE,
     uploadingImage |-> FALSE, selectedFile |-> <<>>,
     formData |-> [name |-> "", phone |-> ""], activeTab |-> "personal"]

\* DigitalPresenceBuilder: no props; state cells lines 10-15; `user` is
\* the localStorage entry the handlers read
DP_Construct(user) ==
    [phase |-> "rendered", user |-> user, selectedTemplate |-> "professional",
     websiteInfo |-> <<>>, isGenerating |-> FALSE, isLoading |-> TRUE,
     previewHtml |-> "", error |-> ""]

Absent(component) == [component EXCEPT !.phase = "absent"]
Mounted(component) == [component EXCEPT !.phase = "mounted"]

NoSettled ==
    [page |-> "none", h |-> "none", name |-> "none", ok |-> TRUE, body |-> ""]
NoApi == [method |-> "none"]
\* App is not under observation
NoApp == [appState |-> "none"]

-----------------------------------------------------------------------------
(* Handler invocations.  An async handler runs to its first await, is     *)
(* suspended while the request it awaits is outstanding, and runs on when *)
(* the request settles.  h: the handler; pc: the await it is suspended    *)
(* at; cap: the state its closure captured at the call; pending: the      *)
(* requests it has sent that have not settled.                             *)

MaxTasks == 2
Idle == [h |-> "idle", pending |-> {}]
NoTasks == [i \in 1..MaxTasks |-> Idle]
Free == {i \in 1..MaxTasks : tasks[i].h = "idle"}
Running(h) == {i \in 1..MaxTasks : tasks[i].h = h}

Req(name, arg) == [name |-> name, arg |-> arg]
Task(h, pc, cap, reqs) == [h |-> h, pc |-> pc, cap |-> cap, pending |-> reqs]
Spawn(t) == tasks' = [tasks EXCEPT ![Min(Free)] = t]
\* the running handlers are kept in the order they were invoked in
Finish(i) ==
    tasks' = [k \in 1..MaxTasks |->
                IF k < i THEN tasks[k]
                ELSE IF k < MaxTasks THEN tasks[k + 1] ELSE Idle]
\* a handler that sends its next request without awaiting the previous one
Continue_Overlapping(i, pc, reqs) ==
    tasks' = [tasks EXCEPT ![i].pc = pc,
                           ![i].pending = tasks[i].pending \cup reqs]

\* the awaited request has settled and the handler awaits its next one
Continue(i, pc, reqs) ==
    tasks' = [tasks EXCEPT ![i].pc = pc, ![i].pending = reqs]

\* the request a suspended handler awaits has settled
Settles(page, i, ok) ==
    LET r == CHOOSE r \in tasks[i].pending : TRUE
    IN  settled' = [page |-> page, h |-> tasks[i].h, name |-> r.name,
                    ok |-> ok, body |-> ""]

\* the response a settling request carried
SettlesWith(page, i, ok, body) ==
    LET r == CHOOSE r \in tasks[i].pending : TRUE
    IN  settled' = [page |-> page, h |-> tasks[i].h, name |-> r.name,
                    ok |-> ok, body |-> body]

\* parseInt: blanks are skipped, then an optional sign and the leading
\* digits are read; the result is NaN (no value) when there is no digit
DigitValue(c) ==
    CASE c = "0" -> 0 [] c = "1" -> 1 [] c = "2" -> 2 [] c = "3" -> 3
      [] c = "4" -> 4 [] c = "5" -> 5 [] c = "6" -> 6 [] c = "7" -> 7
      [] c = "8" -> 8 [] c = "9" -> 9

RECURSIVE Decimal(_)
Decimal(ds) ==
    IF ds = <<>> THEN 0
    ELSE 10 * Decimal(SubSeq(ds, 1, Len(ds) - 1)) + DigitValue(ds[Len(ds)])

ParseInt(s) ==
    LET nonblank == {i \in 1..Len(s) : s[i] \notin Space}
        t == IF nonblank = {} THEN <<>> ELSE SubSeq(s, Min(nonblank), Len(s))
        signed == t # <<>> /\ t[1] \in {"+", "-"}
        from == IF signed THEN 2 ELSE 1
        e == RunEnd(t, from, Digit)
    IN  IF e < from THEN <<>>
        ELSE <<(IF signed /\ t[1] = "-" THEN -1 ELSE 1)
                 * Decimal(SubSeq(t, from, e))>>

\* typeof userId === 'string' ? (parseInt(userId) || 1) : userId
UidNum(userId) ==
    IF ParseInt(userId) = <<>> \/ ParseInt(userId) = <<0>> THEN 1
    ELSE ParseInt(userId)[1]

-----------------------------------------------------------------------------
(* Contact actions: the Call, WhatsApp, Email and SMS buttons of a        *)
(* customer card (CustomersPage) and of the customer header               *)
(* (CustomerDetailPage).                                                   *)

\* CustomersPage renders the list only past its loading and error returns
CP_ListShown == cp.phase = "mounted" /\ ~cp.loading /\ cp.error = ""
\* the add-customer card, {showAddForm && (...)}, part of the same body
CP_FormShown == CP_ListShown /\ cp.showAddForm
\* the form's own message line, {error && <p>{error}</p>}
CP_InlineError == CP_FormShown /\ cp.error # ""
\* a filter that lower-cases the customer's texts and not the search term
CP_filteredCustomers_RawTerm ==
    SelectSeq(cp.customers, LAMBDA customer :
        \/ Includes(ToLowerCase(customer.name), cp.searchTerm)
        \/ Includes(ToLowerCase(customer.contact_info), cp.searchTerm))

\* filteredCustomers
CP_filteredCustomers ==
    SelectSeq(cp.customers, LAMBDA customer :
        \/ Includes(ToLowerCase(customer.name), ToLowerCase(cp.searchTerm))
        \/ Includes(ToLowerCase(customer.contact_info),
                    ToLowerCase(cp.searchTerm)))

\* CustomerDetailPage renders its body only past the loading and error returns
CD_BodyShown == cd.phase = "mounted" /\ ~cd.loading /\ cd.error = ""

Shows(page, effect) == [effect EXCEPT !.page = page]

CP_handleCall ==
    /\ CP_ListShown
    /\ \E i \in 1..Len(CP_filteredCustomers) :
          out' = Shows("CustomersPage", CP_handleCallEffect(CP_filteredCustomers[i]))
    /\ settled' = NoSettled
    /\ UNCHANGED <<cp, cd, pp, dp, tasks, api, app>>

CP_handleWhatsApp ==
    /\ CP_ListShown
    /\ \E i \in 1..Len(CP_filteredCustomers) :
          out' = Shows("CustomersPage", handleWhatsAppEffect(CP_filteredCustomers[i]))
    /\ settled' = NoSettled
    /\ UNCHANGED <<cp, cd, pp, dp, tasks, api, app>>

CP_handleEmail ==
    /\ CP_ListShown
    /\ \E i \in 1..Len(CP_filteredCustomers) : \E opens \in WindowOpenResults :
          out' = Shows("CustomersPage",
                       handleEmailEffect(CP_filteredCustomers[i], opens))
    /\ settled' = NoSettled
    /\ UNCHANGED <<cp, cd, pp, dp, tasks, api, app>>

CP_handleSMS ==
    /\ CP_ListShown
    /\ \E i \in 1..Len(CP_filteredCustomers) :
          out' = Shows("CustomersPage", handleSMSEffect(CP_filteredCustomers[i]))
    /\ settled' = NoSettled
    /\ UNCHANGED <<cp, cd, pp, dp, tasks, api, app>>

CD_handleCall ==
    /\ CD_BodyShown
    /\ out' = Shows("CustomerDetailPage", CD_handleCallEffect(cd.customer))
    /\ settled' = NoSettled
    /\ UNCHANGED <<cp, cd, pp, dp, tasks, api, app>>

\* `if (!customer) return;` opens each of the other three handlers
CD_handleWhatsApp ==
    /\ CD_BodyShown
    /\ out' = Shows("CustomerDetailPage",
                    IF cd.customer = <<>> THEN [Quiet EXCEPT !.h = "handleWhatsApp"]
                    ELSE handleWhatsAppEffect(cd.customer[1]))
    /\ settled' = NoSettled
    /\ UNCHANGED <<cp, cd, pp, dp, tasks, api, app>>

CD_handleEmail ==
    /\ CD_BodyShown
    /\ \E opens \in WindowOpenResults :
          out' = Shows("CustomerDetailPage",
                    IF cd.customer = <<>> THEN [Quiet EXCEPT !.h = "handleEmail"]
                    ELSE handleEmailEffect(cd.customer[1], opens))
    /\ settled' = NoSettled
    /\ UNCHANGED <<cp, cd, pp, dp, tasks, api, app>>

CD_handleSMS ==
    /\ CD_BodyShown
    /\ out' = Shows("CustomerDetailPage",
                    IF cd.customer = <<>> THEN [Quiet EXCEPT !.h = "handleSMS"]
                    ELSE handleSMSEffect(cd.customer[1]))
    /\ settled' = NoSettled
    /\ UNCHANGED <<cp, cd, pp, dp, tasks, api, app>>

\* Contact texts: every concatenation of at most MaxChunks of these pieces
MaxChunks == 3
Chunks == { <<"+">>, <<"9", "8", "7", "6", "5", "4", "3", "2", "1">>, <<"0">>,
            <<" ">>, <<"-">>, <<"a", "@", "b">>, <<".", "c", "o">>, <<".">> }
ContactInputs ==
    {Flatten(cs) : cs \in UNION {[1..n -> Chunks] : n \in 0..MaxChunks}}

\* Both pages loaded and showing the same customer
InitContact ==
    \E info \in ContactInputs :
       LET c == Customer(1, <<"A">>, info)
       IN  /\ cp = [Mounted(CP_Construct(<<"7">>, TRUE)) EXCEPT !.customers = <<c>>]
           /\ cd = [Mounted(CD_Construct(1, <<"7">>)) EXCEPT !.customer = <<c>>]
           /\ pp = Absent(PP_Construct(<<"7">>))
           /\ dp = Absent(DP_Construct(<<>>))
           /\ tasks = NoTasks
           /\ out = Quiet
           /\ settled = NoSettled
           /\ api = NoApi
           /\ app = NoApp

NextContact ==
    \/ CP_handleCall
    \/ CP_handleWhatsApp
    \/ CP_handleEmail
    \/ CP_handleSMS
    \/ CD_handleCall
    \/ CD_handleWhatsApp
    \/ CD_handleEmail
    \/ CD_handleSMS

SpecContact == InitContact /\ [][NextContact]_vars

-----------------------------------------------------------------------------
(* Properties of the contact handlers (SpecContact) *)

\* the contact text of the customer the last contact step was about
ContactText ==
    Trim(IF out.page = "CustomersPage" THEN cp.customers[1].contact_info
         ELSE cd.customer[1].contact_info)

\* a blank-or-dash-or-digit stretch of at least ten characters, possibly
\* after a '+', occurs in the text
HasPhone(text) ==
    \E i \in 1..Len(text) : \E e \in i..Len(text) :
       /\ e - i + 1 >= MinPhoneLen
       /\ \A j \in i..e : text[j] \in PhoneClass

CallKind(o) ==
    IF o.href # <<>> THEN o.href[1].scheme
    ELSE IF o.clipboard # <<>> THEN "clipboard" ELSE "nothing"

C6_OneOfThree ==
    out.h = "handleCall" =>
       /\ HasPhone(ContactText) =>
             /\ CallKind(out) = "tel"
             /\ out.alert = "" /\ out.clipboard = <<>>
       /\ (~HasPhone(ContactText) /\ Includes(ContactText, <<"@">>)) =>
             /\ CallKind(out) = "mailto"
             /\ out.alert = "" /\ out.clipboard = <<>>
       /\ (~HasPhone(ContactText) /\ ~Includes(ContactText, <<"@">>)) =>
             /\ out.href = <<>>
             /\ out.clipboard = <<ContactText>>
             /\ out.alert = "Contact copied to clipboard"

C6_SameChoice ==
    (out.h = "handleCall" /\ out'.h = "handleCall" /\ out.page # out'.page)
       => CallKind(out') = CallKind(out)

\* C6: for every contact_info the Call action ends in exactly one of tel:
\* navigation (a phone number is found), mailto: navigation (no phone, the
\* text contains '@') or clipboard copy with the alert 'Contact copied to
\* clipboard' (neither), and CustomersPage and CustomerDetailPage choose the
\* same outcome for the same contact_info.
C6_CallDispatch == [](C6_OneOfThree) /\ [][C6_SameChoice]_vars

\* an optional leading '+' followed by digits only
IsDialString(n) ==
    \A k \in 1..Len(n) : n[k] \in Digit \/ (k = 1 /\ n[k] = "+")

\* the text the phone pattern extracts, without the blanks around it
ExtractedPhone == Trim(PhoneMatch(ContactText))

\* C7: the number of a tel: or sms: URI is the extracted phone text with all
\* whitespace and '-' removed, an optional leading '+' followed by digits
\* only; the number of a wa.me link is '+' followed by digits only, the
\* extracted number's own '+' and digits if it has a leading '+' and
\* otherwise '+91' followed by its digits.
C7_PhoneNormalised ==
    \A u \in {out.href[i] : i \in 1..Len(out.href)}
             \cup {out.opened[i] : i \in 1..Len(out.opened)} :
       /\ u.scheme \in {"tel", "sms"} =>
             /\ IsDialString(u.to)
             /\ \A k \in 1..Len(u.to) : u.to[k] \notin Space \cup {"-"}
             /\ u.to = SelectSeq(ExtractedPhone,
                                 LAMBDA c : c \notin Space /\ c # "-")
       /\ u.scheme = "wa.me" =>
             /\ Len(u.to) >= 1 /\ u.to[1] = "+"
             /\ \A k \in 2..Len(u.to) : u.to[k] \in Digit
             /\ LET digits == SelectSeq(ExtractedPhone, LAMBDA c : c \in Digit)
                IN  u.to = IF ExtractedPhone[1] = "+" THEN <<"+">> \o digits
                           ELSE <<"+", "9", "1">> \o digits

\* a wa.me link was opened for a number written with dashes and no '+', and
\* a tel: link for one written with a '+' and blanks
C7_Witness ==
    \/ /\ out.h = "handleWhatsApp" /\ out.opened # <<>>
       /\ Includes(ExtractedPhone, <<"-">>) /\ ExtractedPhone[1] # "+"
       /\ out.page = "CustomerDetailPage"
    \/ /\ out.h = "handleSMS" /\ out.opened # <<>>
       /\ Includes(ExtractedPhone, <<" ">>) /\ ExtractedPhone[1] = "+"
       /\ out.page = "CustomersPage"

\* t has the shape local@domain.tld of the standard e-mail pattern
StdEmailShape(t) ==
    \E at \in 2..Len(t) :
       /\ t[at] = "@"
       /\ \A j \in 1..(at - 1) : t[j] \in LocalClass
       /\ \E p \in (at + 2)..(Len(t) - MinTldLen) :
             /\ t[p] = "."
             /\ \A j \in (at + 1)..(p - 1) : t[j] \in DomainClass
             /\ \A j \in (p + 1)..Len(t) : t[j] \in Letter

\* t has the shape non-space '@' non-space '.' non-space
LooseEmailShape(t) ==
    /\ \A j \in 1..Len(t) : t[j] \notin Space
    /\ \E at \in 2..Len(t) : \E q \in (at + 2)..(Len(t) - 1) :
          t[at] = "@" /\ t[q] = "."

\* t is the first substring of text with the given shape: none with the
\* shape starts further left, and none starting at the same place is longer
IsFirstMatch(t, text, Shape(_)) ==
    LET spans == {ie \in (1..Len(text)) \X (1..Len(text)) :
                     ie[1] <= ie[2] /\ Shape(SubSeq(text, ie[1], ie[2]))}
    IN  \E ie \in spans :
           /\ t = SubSeq(text, ie[1], ie[2])
           /\ \A other \in spans :
                 \/ other[1] > ie[1]
                 \/ other[1] = ie[1] /\ other[2] <= ie[2]

HasMatch(text, Shape(_)) ==
    \E i \in 1..Len(text) : \E e \in i..Len(text) : Shape(SubSeq(text, i, e))

\* how handleEmail delivered the mailto URI addressed to t
EmailDelivered(t) ==
    LET url == Uri("mailto", t, TRUE)
    IN  /\ out.windowOpen = "window" =>
              out.opened = <<url>> /\ out.href = <<>> /\ out.alert = ""
        /\ out.windowOpen = "null" =>
              out.href = <<url>> /\ out.opened = <<>> /\ out.alert = ""
        /\ out.windowOpen = "throws" =>
              /\ out.alert = "Please email manually" /\ out.alertArg = t
              /\ out.href = <<>> /\ out.opened = <<>>
        /\ out.windowOpen \in WindowOpenResults

\* C8: handleEmail addresses its mailto: link to the first substring of
\* contact_info matching the standard e-mail pattern or, only if that
\* pattern has no match, to the first match of the looser pattern; with no
\* match it opens nothing and shows the 'No email address available' alert.
\* When window.open returns no window the same URL is assigned to
\* location.href, and when opening throws the address is shown in an alert.
C8_EmailDispatch ==
    out.h = "handleEmail" =>
       IF HasMatch(ContactText, StdEmailShape)
       THEN \E t \in {StdEmailMatch(ContactText)} :
               IsFirstMatch(t, ContactText, StdEmailShape) /\ EmailDelivered(t)
       ELSE IF HasMatch(ContactText, LooseEmailShape)
       THEN \E t \in {LooseEmailMatch(ContactText)} :
               IsFirstMatch(t, ContactText, LooseEmailShape) /\ EmailDelivered(t)
       ELSE /\ out.alert = "No email address available"
            /\ out.href = <<>> /\ out.opened = <<>> /\ out.windowOpen = ""

\* the looser pattern supplied the address and location.href was the
\* fallback of a blocked window.open
C8_Witness ==
    /\ out.h = "handleEmail" /\ out.windowOpen = "null" /\ out.href # <<>>
    /\ ~HasMatch(ContactText, StdEmailShape)
    /\ HasMatch(ContactText, LooseEmailShape)

-----------------------------------------------------------------------------
(* CustomersPage *)

\* what the backend may answer
Al == Customer(1, <<"A", "l">>, <<"x", "@", "B">>)
Bo == Customer(2, <<"b", "o">>, <<"9", "a", "L">>)
CustomerLists == {<<>>, <<Al>>, <<Al, Bo>>, <<Bo, Al>>}
MessageLists == {<<[id |-> 1, message |-> "hello"]>>}
\* the customer a createCustomer request answers with
CreatedCustomers(data) == {Customer(3, data.name, data.contact_info)}

\* what the user may type
SearchTerms == {<<>>, <<"A", "L">>, <<"x">>}
FormTexts == {<<>>, <<"Z", "e">>}
MaxCustomers == 3

NoEffect == out' = Quiet /\ settled' = NoSettled
CP_Only == UNCHANGED <<cd, pp, dp, api, app>>

\* useEffect(() => { fetchCustomers() }, [userId]), up to its await
CP_fetchCustomers ==
    /\ cp.phase = "rendered"
    /\ IF cp.userId = <<>>
       THEN /\ cp' = Mounted(cp)
            /\ UNCHANGED tasks
       ELSE /\ cp' = [Mounted(cp) EXCEPT !.loading = TRUE]
            /\ Spawn(Task("fetchCustomers", "getCustomers", <<>>,
                          {Req("getCustomers", <<UidNum(cp.userId)>>)}))
    /\ NoEffect /\ CP_Only

\* fetchCustomers from the await on
CP_fetchCustomers_resume ==
    \E i \in Running("fetchCustomers") :
       /\ \/ \E data \in CustomerLists :
                /\ cp' = [cp EXCEPT !.customers = data, !.loading = FALSE]
                /\ Settles("CustomersPage", i, TRUE)
          \/ /\ cp' = [cp EXCEPT !.error = "Failed to load customers",
                                 !.loading = FALSE]
             /\ Settles("CustomersPage", i, FALSE)
       /\ Finish(i)
       /\ out' = Quiet /\ CP_Only

\* onChange of the search box
CP_setSearchTerm ==
    /\ CP_ListShown
    /\ \E term \in SearchTerms : cp' = [cp EXCEPT !.searchTerm = term]
    /\ UNCHANGED tasks /\ NoEffect /\ CP_Only

\* the Add Customer button and the form's Cancel button
CP_setShowAddForm ==
    /\ CP_ListShown
    /\ \E show \in BOOLEAN :
          /\ show = FALSE => cp.showAddForm
          /\ cp' = [cp EXCEPT !.showAddForm = show]
    /\ UNCHANGED tasks /\ NoEffect /\ CP_Only

\* onChange of the form's three inputs
CP_setNewCustomer ==
    /\ CP_ListShown /\ cp.showAddForm
    /\ \E field \in {"name", "contact_info", "notes"} : \E text \in FormTexts :
          cp' = [cp EXCEPT !.newCustomer[field] = text]
    /\ UNCHANGED tasks /\ NoEffect /\ CP_Only

\* a required-field test that looks at the name only
CP_FormIncomplete_NameOnly == cp.newCustomer.name = <<>>

\* !newCustomer.name || !newCustomer.contact_info
CP_FormIncomplete ==
    cp.newCustomer.name = <<>> \/ cp.newCustomer.contact_info = <<>>

\* handleAddCustomer up to its await
CP_handleAddCustomer ==
    /\ CP_ListShown /\ cp.showAddForm
    /\ Len(cp.customers) < MaxCustomers
    /\ IF CP_FormIncomplete
       THEN /\ cp' = [cp EXCEPT !.error = "Name and contact info are required"]
            /\ UNCHANGED tasks
       ELSE /\ Free # {}
            /\ cp' = [cp EXCEPT !.loading = TRUE]
            /\ Spawn(Task("handleAddCustomer", "createCustomer",
                          [customers |-> cp.customers],
                          {Req("createCustomer",
                               [name |-> cp.newCustomer.name,
                                contact_info |-> cp.newCustomer.contact_info,
                                notes |-> cp.newCustomer.notes,
                                user_id |-> UidNum(cp.userId)])}))
    /\ NoEffect /\ CP_Only

\* an add that puts the new customer in front of the list
CP_handleAddCustomer_resume_Prepend ==
    \E i \in Running("handleAddCustomer") :
       /\ \/ \E r \in tasks[i].pending : \E result \in CreatedCustomers(r.arg) :
                /\ cp' = [cp EXCEPT
                            !.customers = <<result>> \o tasks[i].cap.customers,
                            !.newCustomer = [name |-> <<>>, contact_info |-> <<>>,
                                             notes |-> <<>>],
                            !.showAddForm = FALSE,
                            !.error = "",
                            !.loading = FALSE]
                /\ SettlesWith("CustomersPage", i, TRUE, result)
          \/ /\ cp' = [cp EXCEPT !.error = "Failed to create customer",
                                 !.loading = FALSE]
             /\ Settles("CustomersPage", i, FALSE)
       /\ Finish(i)
       /\ out' = Quiet /\ CP_Only

\* handleAddCustomer from the await on
CP_handleAddCustomer_resume ==
    \E i \in Running("handleAddCustomer") :
       /\ \/ \E r \in tasks[i].pending : \E result \in CreatedCustomers(r.arg) :
                /\ cp' = [cp EXCEPT
                            !.customers = Append(tasks[i].cap.customers, result),
                            !.newCustomer = [name |-> <<>>, contact_info |-> <<>>,
                                             notes |-> <<>>],
                            !.showAddForm = FALSE,
                            !.error = "",
                            !.loading = FALSE]
                /\ SettlesWith("CustomersPage", i, TRUE, result)
          \/ /\ cp' = [cp EXCEPT !.error = "Failed to create customer",
                                 !.loading = FALSE]
             /\ Settles("CustomersPage", i, FALSE)
       /\ Finish(i)
       /\ out' = Quiet /\ CP_Only

\* the View Details button: the onViewCustomer prop when the page was given
\* one, else openDetails up to its await
CP_openDetails ==
    /\ CP_ListShown
    /\ \E k \in 1..Len(CP_filteredCustomers) :
          LET customer == CP_filteredCustomers[k]
          IN  IF cp.onViewCustomer
              THEN /\ out' = [Quiet EXCEPT !.page = "CustomersPage",
                                           !.h = "onViewCustomer"]
                   /\ UNCHANGED <<cp, tasks>>
              ELSE /\ Free # {}
                   /\ cp' = [cp EXCEPT !.activeCustomer = <<customer>>,
                                       !.detailsOpen = TRUE]
                   /\ Spawn(Task("openDetails", "getCustomerInteractions", <<>>,
                                 {Req("getCustomerInteractions", <<customer.id>>)}))
                   /\ out' = Quiet
    /\ settled' = NoSettled /\ CP_Only

\* openDetails from the await on
CP_openDetails_resume ==
    \E i \in Running("openDetails") :
       /\ \/ \E data \in MessageLists :
                /\ cp' = [cp EXCEPT !.interactions = data]
                /\ Settles("CustomersPage", i, TRUE)
          \/ /\ cp' = [cp EXCEPT !.interactions = <<>>]
             /\ Settles("CustomersPage", i, FALSE)
       /\ Finish(i)
       /\ out' = Quiet /\ CP_Only

\* the dialog's Close button and its onOpenChange
CP_setDetailsOpen ==
    /\ CP_ListShown /\ cp.detailsOpen
    /\ cp' = [cp EXCEPT !.detailsOpen = FALSE]
    /\ UNCHANGED tasks /\ NoEffect /\ CP_Only

\* the props the page is rendered with: userId, onViewCustomer
CP_Props == {<<<<>>, TRUE>>, <<<<"7">>, FALSE>>, <<<<"b", "o", "b">>, TRUE>>}

InitCustomers ==
    /\ \E props \in CP_Props : cp = CP_Construct(props[1], props[2])
    /\ cd = Absent(CD_Construct(1, <<>>))
    /\ pp = Absent(PP_Construct(<<>>))
    /\ dp = Absent(DP_Construct(<<>>))
    /\ tasks = NoTasks
    /\ out = Quiet
    /\ settled = NoSettled
    /\ api = NoApi
    /\ app = NoApp

NextCustomers ==
    \/ CP_fetchCustomers
    \/ CP_fetchCustomers_resume
    \/ CP_setSearchTerm
    \/ CP_setShowAddForm
    \/ CP_setNewCustomer
    \/ CP_handleAddCustomer
    \/ CP_handleAddCustomer_resume
    \/ CP_openDetails
    \/ CP_openDetails_resume
    \/ CP_setDetailsOpen

SpecCustomers == InitCustomers /\ [][NextCustomers]_vars

-----------------------------------------------------------------------------
(* Properties of CustomersPage (SpecCustomers) *)

\* the requests outstanding
Outstanding == UNION {tasks[i].pending : i \in 1..MaxTasks}
OutstandingOf(name) == {r \in Outstanding : r.name = name}
\* the handlers started by a step
Started(h) == {i \in 1..MaxTasks : tasks[i].h = "idle" /\ tasks'[i].h = h}

C4_SentOnlyComplete ==
    \A r \in OutstandingOf("createCustomer") :
       r.arg.name # <<>> /\ r.arg.contact_info # <<>>

C4_Submit ==
    CP_handleAddCustomer =>
       IF cp.newCustomer.name # <<>> /\ cp.newCustomer.contact_info # <<>>
       THEN \E i \in Started("handleAddCustomer") :
               \E r \in tasks'[i].pending :
                  /\ r.name = "createCustomer"
                  /\ r.arg.name = cp.newCustomer.name
                  /\ r.arg.contact_info = cp.newCustomer.contact_info
       ELSE /\ tasks' = tasks
            /\ cp'.customers = cp.customers
            /\ cp'.error = "Name and contact info are required"

\* C4: handleAddCustomer sends a createCustomer request only when both the
\* name and the contact_info of the new-customer form are non-empty; when
\* either is empty no request is sent, the customers list is unchanged and
\* the error 'Name and contact info are required' is set.
C4_RequiredFields == [](C4_SentOnlyComplete) /\ [][C4_Submit]_vars

\* a submission with a name and no contact_info was rejected
C4_Witness ==
    /\ cp.error = "Name and contact info are required"
    /\ cp.newCustomer.name # <<>> /\ cp.newCustomer.contact_info = <<>>
    /\ Outstanding = {}

\* a and b are the same character up to the case of a letter
SameCharCI(a, b) ==
    \/ a = b
    \/ \E k \in 1..Len(LowerSeq) :
          {a, b} = {LowerSeq[k], UpperSeq[k]}

\* t occurs in s, compared case-insensitively
ContainsCI(s, t) ==
    \E off \in 0..(Len(s) - Len(t)) :
       \A k \in 1..Len(t) : SameCharCI(s[off + k], t[k])

\* shown is the sub-sequence of list made of the entries satisfying Match
IsSelection(shown, list, Match(_)) ==
    LET idx == {i \in 1..Len(list) : Match(list[i])}
    IN  /\ Len(shown) = Cardinality(idx)
        /\ \E f \in [1..Len(shown) -> idx] :
              /\ \A j, k \in 1..Len(shown) : j < k => f[j] < f[k]
              /\ \A k \in 1..Len(shown) : shown[k] = list[f[k]]

C9_Shown ==
    LET Match(c) == \/ ContainsCI(c.name, cp.searchTerm)
                    \/ ContainsCI(c.contact_info, cp.searchTerm)
    IN  /\ IsSelection(CP_filteredCustomers, cp.customers, Match)
        /\ cp.searchTerm = <<>> => CP_filteredCustomers = cp.customers

C9_TermOnly ==
    cp'.searchTerm # cp.searchTerm => cp'.customers = cp.customers

\* C9: the list CustomersPage shows is exactly the sub-sequence of the
\* customers state whose name or contact_info contains the search term,
\* compared case-insensitively, in the original order; an empty search term
\* shows every customer, and changing the search term never changes the
\* customers state.
C9_Filter == [](C9_Shown) /\ [][C9_TermOnly]_vars

\* an upper-case term selects a proper, non-empty part of the list, one
\* entry by its name and one by its contact_info
C9_Witness ==
    /\ CP_ListShown
    /\ cp.searchTerm = <<"A", "L">>
    /\ Len(CP_filteredCustomers) = 2 /\ Len(cp.customers) = 3
    /\ \E k \in 1..2 : ~ContainsCI(CP_filteredCustomers[k].name, cp.searchTerm)

-----------------------------------------------------------------------------
(* CustomerDetailPage *)

\* a CustomerInteraction as the backend returns it
Interaction(id, title, notes) == [id |-> id, title |-> title, notes |-> notes]
I1 == Interaction(1, <<"t">>, <<"t">>)

MaxInteractions == 2
DetailedLists == {<<>>, <<I1>>}
InsightResults == {[suggested_follow_up_date |-> ""],
                   [suggested_follow_up_date |-> "soon"]}
\* what the user may type into the title and notes inputs, and the values
\* the datetime-local input may hold ("" when cleared)
InteractionTexts == {<<>>, <<" ">>, <<"t">>}
InteractionDates == {"", "now"}

Ids(list) == {list[k].id : k \in 1..Len(list)}
\* the ids the backend has not handed to this page yet
FreshIds ==
    (1..MaxInteractions)
      \ (Ids(cd.customerInteractions)
           \cup UNION {Ids(tasks[i].cap.customerInteractions) :
                         i \in Running("handleInteractionSubmit")
                               \cup Running("handleDeleteInteraction")})

CD_Only == UNCHANGED <<cp, pp, dp, api, app>>
\* an alert that shows nothing
CD_Alert_Silent(h, text) == out' = Quiet

\* alert(text)
CD_Alert(h, text) ==
    out' = [Quiet EXCEPT !.page = "CustomerDetailPage", !.h = h, !.alert = text]

\* useEffect(() => { fetchData() }, [customerId, userId]), up to its first
\* await
CD_fetchData ==
    /\ cd.phase = "rendered"
    /\ IF cd.customerId = 0 \/ cd.userId = <<>>
       THEN /\ cd' = Mounted(cd)
            /\ UNCHANGED tasks
       ELSE /\ cd' = [Mounted(cd) EXCEPT !.loading = TRUE, !.error = ""]
            /\ Spawn(Task("fetchData", "getCustomer",
                          [uidNum |-> UidNum(cd.userId)],
                          {Req("getCustomer", <<cd.customerId>>)}))
    /\ NoEffect /\ CD_Only

\* a load whose detailed-interactions request shares the outer catch
CD_fetchData_resume_OneCatch ==
    \E i \in Running("fetchData") :
       /\ \/ /\ tasks[i].pc = "getCustomer"
             /\ \E name \in {<<"A">>} : \E info \in {<<"9">>} :
                   cd' = [cd EXCEPT
                            !.customer = <<Customer(cd.customerId, name, info)>>]
             /\ Continue(i, "getCustomerInteractions",
                         {Req("getCustomerInteractions", <<cd.customerId>>)})
             /\ Settles("CustomerDetailPage", i, TRUE)
          \/ /\ tasks[i].pc = "getCustomerInteractions"
             /\ \E data \in MessageLists : cd' = [cd EXCEPT !.interactions = data]
             /\ Continue(i, "getCustomerDetailedInteractions",
                         {Req("getCustomerDetailedInteractions",
                              <<cd.customerId, tasks[i].cap.uidNum>>)})
             /\ Settles("CustomerDetailPage", i, TRUE)
          \/ /\ tasks[i].pc = "getCustomerDetailedInteractions"
             /\ \E data \in DetailedLists :
                   cd' = [cd EXCEPT !.customerInteractions = data,
                                    !.loading = FALSE]
             /\ Finish(i)
             /\ Settles("CustomerDetailPage", i, TRUE)
          \/ /\ tasks[i].pc = "getCustomerDetailedInteractions"
             /\ cd' = [cd EXCEPT !.error = "Failed to load customer data",
                                 !.loading = FALSE]
             /\ Finish(i)
             /\ Settles("CustomerDetailPage", i, FALSE)
          \/ /\ tasks[i].pc \in {"getCustomer", "getCustomerInteractions"}
             /\ cd' = [cd EXCEPT !.error = "Failed to load customer data",
                                 !.loading = FALSE]
             /\ Finish(i)
             /\ Settles("CustomerDetailPage", i, FALSE)
       /\ out' = Quiet /\ CD_Only

\* fetchData from one await to the next
CD_fetchData_resume ==
    \E i \in Running("fetchData") :
       /\ \/ /\ tasks[i].pc = "getCustomer"
             /\ \E name \in {<<"A">>} : \E info \in {<<"9">>} :
                   cd' = [cd EXCEPT
                            !.customer = <<Customer(cd.customerId, name, info)>>]
             /\ Continue(i, "getCustomerInteractions",
                         {Req("getCustomerInteractions", <<cd.customerId>>)})
             /\ Settles("CustomerDetailPage", i, TRUE)
          \/ /\ tasks[i].pc = "getCustomerInteractions"
             /\ \E data \in MessageLists : cd' = [cd EXCEPT !.interactions = data]
             /\ Continue(i, "getCustomerDetailedInteractions",
                         {Req("getCustomerDetailedInteractions",
                              <<cd.customerId, tasks[i].cap.uidNum>>)})
             /\ Settles("CustomerDetailPage", i, TRUE)
          \/ /\ tasks[i].pc = "getCustomerDetailedInteractions"
             /\ \E data \in DetailedLists :
                   cd' = [cd EXCEPT !.customerInteractions = data,
                                    !.loading = FALSE]
             /\ Finish(i)
             /\ Settles("CustomerDetailPage", i, TRUE)
          \/ /\ tasks[i].pc = "getCustomerDetailedInteractions"
             /\ cd' = [cd EXCEPT !.customerInteractions = <<>>,
                                 !.loading = FALSE]
             /\ Finish(i)
             /\ Settles("CustomerDetailPage", i, FALSE)
          \/ /\ tasks[i].pc \in {"getCustomer", "getCustomerInteractions"}
             /\ cd' = [cd EXCEPT !.error = "Failed to load customer data",
                                 !.loading = FALSE]
             /\ Finish(i)
             /\ Settles("CustomerDetailPage", i, FALSE)
       /\ out' = Quiet /\ CD_Only

\* the Refresh / Get Insights buttons (disabled while aiLoading):
\* fetchAIInsights up to its await
CD_fetchAIInsights ==
    /\ CD_BodyShown /\ ~cd.aiLoading
    /\ IF cd.customer = <<>> \/ cd.userId = <<>>
       THEN UNCHANGED <<cd, tasks>>
       ELSE /\ Free # {}
            /\ cd' = [cd EXCEPT !.aiLoading = TRUE, !.aiError = ""]
            /\ Spawn(Task("fetchAIInsights", "getCustomerInsights", <<>>,
                          {Req("getCustomerInsights",
                               <<cd.customerId, UidNum(cd.userId)>>)}))
    /\ NoEffect /\ CD_Only

\* fetchAIInsights from the await on
CD_fetchAIInsights_resume ==
    \E i \in Running("fetchAIInsights") :
       /\ \/ \E data \in InsightResults :
                /\ cd' = [cd EXCEPT !.insights = <<data>>, !.aiLoading = FALSE]
                /\ Settles("CustomerDetailPage", i, TRUE)
          \/ /\ cd' = [cd EXCEPT !.aiError = "Failed to load AI insights",
                                 !.aiLoading = FALSE]
             /\ Settles("CustomerDetailPage", i, FALSE)
       /\ Finish(i)
       /\ out' = Quiet /\ CD_Only
\* an Add Interaction button that leaves currentInteraction as it was
CD_handleAddInteraction_KeepsCurrent ==
    /\ CD_BodyShown
    /\ cd' = [cd EXCEPT !.isEditMode = FALSE,
                        !.interactionForm = EmptyInteractionForm,
                        !.interactionDialogOpen = TRUE]
    /\ UNCHANGED tasks /\ NoEffect /\ CD_Only

\* the Add Interaction buttons
CD_handleAddInteraction ==
    /\ CD_BodyShown
    /\ cd' = [cd EXCEPT !.isEditMode = FALSE,
                        !.currentInteraction = <<>>,
                        !.interactionForm = EmptyInteractionForm,
                        !.interactionDialogOpen = TRUE]
    /\ UNCHANGED tasks /\ NoEffect /\ CD_Only

\* the Edit item of an interaction's menu
CD_handleEditInteraction ==
    /\ CD_BodyShown
    /\ \E k \in 1..Len(cd.customerInteractions) :
          LET interaction == cd.customerInteractions[k]
          IN  cd' = [cd EXCEPT
                       !.isEditMode = TRUE,
                       !.currentInteraction = <<interaction.id>>,
                       !.interactionForm =
                           [EmptyInteractionForm EXCEPT
                              !.title = interaction.title,
                              !.notes = interaction.notes],
                       !.interactionDialogOpen = TRUE]
    /\ UNCHANGED tasks /\ NoEffect /\ CD_Only

\* the Delete item of an interaction's menu, up to the await; the user may
\* dismiss the confirm() box
CD_handleDeleteInteraction ==
    /\ CD_BodyShown
    /\ \E k \in 1..Len(cd.customerInteractions) : \E confirmed \in BOOLEAN :
          IF ~confirmed
          THEN UNCHANGED tasks
          ELSE /\ Free # {}
               /\ Spawn(Task("handleDeleteInteraction",
                             "deleteCustomerInteraction",
                             [customerInteractions |-> cd.customerInteractions,
                              id |-> cd.customerInteractions[k].id],
                             {Req("deleteCustomerInteraction",
                                  <<cd.customerInteractions[k].id>>)}))
    /\ UNCHANGED cd /\ NoEffect /\ CD_Only

\* handleDeleteInteraction from the await on
CD_handleDeleteInteraction_resume ==
    \E i \in Running("handleDeleteInteraction") :
       /\ \/ /\ cd' = [cd EXCEPT !.customerInteractions =
                          SelectSeq(tasks[i].cap.customerInteractions,
                                    LAMBDA x : x.id # tasks[i].cap.id)]
             /\ out' = Quiet
             /\ Settles("CustomerDetailPage", i, TRUE)
          \/ /\ UNCHANGED cd
             /\ CD_Alert("handleDeleteInteraction",
                         "Failed to delete interaction. Please try again.")
             /\ Settles("CustomerDetailPage", i, FALSE)
       /\ Finish(i)
       /\ CD_Only

\* the Schedule button of the suggested follow-up
CD_handleScheduleFollowUp ==
    /\ CD_BodyShown
    /\ cd.insights # <<>> /\ cd.insights[1].suggested_follow_up_date # ""
    /\ cd' = [cd EXCEPT
                !.interactionForm =
                    \* 'Scheduled Follow-up', 'Follow-up scheduled based on ...'
                    [EmptyInteractionForm EXCEPT !.title = <<"t">>,
                                                 !.notes = <<"t">>],
                !.isEditMode = FALSE,
                !.currentInteraction = <<>>,
                !.interactionDialogOpen = TRUE]
    /\ UNCHANGED tasks /\ NoEffect /\ CD_Only

\* onChange of the dialog's title, notes and date inputs
CD_setInteractionForm ==
    /\ CD_BodyShown /\ cd.interactionDialogOpen
    /\ \/ \E field \in {"title", "notes"} : \E text \in InteractionTexts :
             cd' = [cd EXCEPT !.interactionForm[field] = text]
       \/ \E date \in InteractionDates :
             cd' = [cd EXCEPT !.interactionForm.interaction_date = date]
    /\ UNCHANGED tasks /\ NoEffect /\ CD_Only

\* the dialog's Cancel button and its onOpenChange
CD_setInteractionDialogOpen ==
    /\ CD_BodyShown /\ cd.interactionDialogOpen
    /\ cd' = [cd EXCEPT !.interactionDialogOpen = FALSE]
    /\ UNCHANGED tasks /\ NoEffect /\ CD_Only
\* a required-text test that does not trim
CD_Blank_NoTrim(text) == text = <<>>

\* !text.trim()
CD_Blank(text) == Trim(text) = <<>>

\* the create requests that have not been answered
PendingCreates ==
    {i \in Running("handleInteractionSubmit") :
        tasks[i].pc = "createCustomerInteraction"}

\* handleInteractionSubmit up to its await.  It is called by the Save /
\* Update button, whose onClick tests interactionLoading and the two
\* texts, and by the form's onSubmit, which tests nothing.
CD_handleInteractionSubmit ==
    /\ CD_BodyShown /\ cd.interactionDialogOpen
    /\ \E via \in {"onClick", "onSubmit"} :
          via = "onClick" =>
             /\ ~cd.interactionLoading
             /\ cd.interactionForm.title # <<>>
             /\ cd.interactionForm.notes # <<>>
    /\ LET form == cd.interactionForm
           update == cd.isEditMode /\ cd.currentInteraction # <<>>
           Rejected(text, arg) ==
               /\ cd' = [cd EXCEPT !.interactionLoading = FALSE]
               /\ out' = [Quiet EXCEPT !.page = "CustomerDetailPage",
                                       !.h = "handleInteractionSubmit",
                                       !.alert = text, !.alertArg = arg]
               /\ UNCHANGED tasks
       IN  IF cd.customer = <<>> \/ cd.userId = <<>>
           THEN /\ CD_Alert("handleInteractionSubmit",
                     "Customer or user information is missing. Please reload the page.")
                /\ UNCHANGED <<cd, tasks>>
           ELSE IF CD_Blank(form.title)
           THEN Rejected("Please enter a title for the interaction", <<>>)
           ELSE IF CD_Blank(form.notes)
           THEN Rejected("Please enter notes for the interaction", <<>>)
           ELSE IF form.interaction_date = ""
           THEN \* new Date('').toISOString() throws a RangeError
                Rejected("Failed to save interaction. ", <<"Invalid time value">>)
           ELSE /\ Free # {}
                /\ update \/ Cardinality(FreshIds) > Cardinality(PendingCreates)
                /\ cd' = [cd EXCEPT !.interactionLoading = TRUE]
                /\ LET data == [title |-> form.title, notes |-> form.notes,
                                customer_id |-> cd.customer[1].id,
                                user_id |-> UidNum(cd.userId)]
                       cap == [customerInteractions |-> cd.customerInteractions,
                               currentInteraction |-> cd.currentInteraction]
                   IN  IF update
                       THEN Spawn(Task("handleInteractionSubmit",
                                       "updateCustomerInteraction", cap,
                                       {Req("updateCustomerInteraction",
                                            <<cd.currentInteraction[1], data>>)}))
                       ELSE Spawn(Task("handleInteractionSubmit",
                                       "createCustomerInteraction", cap,
                                       {Req("createCustomerInteraction",
                                            <<data>>)}))
                /\ out' = Quiet
    /\ settled' = NoSettled /\ CD_Only

\* handleInteractionSubmit from the await on
CD_handleInteractionSubmit_resume ==
    \E i \in Running("handleInteractionSubmit") :
       /\ \/ /\ LET list == tasks[i].cap.customerInteractions
                    r == CHOOSE r \in tasks[i].pending : TRUE
                    data == r.arg[Len(r.arg)]
                    result ==
                        IF tasks[i].pc = "updateCustomerInteraction"
                        THEN Interaction(r.arg[1], data.title, data.notes)
                        ELSE Interaction(Min(FreshIds), data.title, data.notes)
                IN  cd' = [cd EXCEPT
                             !.customerInteractions =
                                 IF tasks[i].pc = "updateCustomerInteraction"
                                 THEN [k \in 1..Len(list) |->
                                         IF list[k].id
                                              = tasks[i].cap.currentInteraction[1]
                                         THEN result ELSE list[k]]
                                 ELSE <<result>> \o list,
                             !.interactionDialogOpen = FALSE,
                             !.interactionForm = EmptyInteractionForm,
                             !.interactionLoading = FALSE]
             /\ out' = Quiet
             /\ Settles("CustomerDetailPage", i, TRUE)
          \/ /\ cd' = [cd EXCEPT !.interactionLoading = FALSE]
             /\ out' = [Quiet EXCEPT !.page = "CustomerDetailPage",
                                     !.h = "handleInteractionSubmit",
                                     !.alert = "Failed to save interaction. ",
                                     !.alertArg = <<"err.message">>]
             /\ Settles("CustomerDetailPage", i, FALSE)
       /\ Finish(i)
       /\ CD_Only

\* the props the page is rendered with: customerId, userId
CD_Props == {<<1, <<>>>>, <<1, <<"7">>>>}

InitDetail ==
    /\ \E props \in CD_Props : cd = CD_Construct(props[1], props[2])
    /\ cp = Absent(CP_Construct(<<>>, TRUE))
    /\ pp = Absent(PP_Construct(<<>>))
    /\ dp = Absent(DP_Construct(<<>>))
    /\ tasks = NoTasks
    /\ out = Quiet
    /\ settled = NoSettled
    /\ api = NoApi
    /\ app = NoApp

NextDetail ==
    \/ CD_fetchData
    \/ CD_fetchData_resume
    \/ CD_fetchAIInsights
    \/ CD_fetchAIInsights_resume
    \/ CD_handleAddInteraction
    \/ CD_handleEditInteraction
    \/ CD_handleDeleteInteraction
    \/ CD_handleDeleteInteraction_resume
    \/ CD_handleScheduleFollowUp
    \/ CD_setInteractionForm
    \/ CD_setInteractionDialogOpen
    \/ CD_handleInteractionSubmit
    \/ CD_handleInteractionSubmit_resume

SpecDetail == InitDetail /\ [][NextDetail]_vars
-----------------------------------------------------------------------------
(* DigitalPresenceBuilder.  dp.user is the localStorage entry 'user': no  *)
(* entry, a text JSON.parse rejects, or an object whose id may be missing *)
(* (0).                                                                   *)

StoredUsers == {<<>>, <<[parses |-> FALSE, id |-> 0]>>,
                <<[parses |-> TRUE, id |-> 0]>>, <<[parses |-> TRUE, id |-> 5]>>}
TemplateIds == {"professional", "modern", "minimal"}
HtmlContents == {"", "<html>"}
WebsiteInfos == {[html_content |-> h] : h \in HtmlContents}

DP_Only == UNCHANGED <<cp, cd, pp, api, app>>

\* a check that accepts a stored user without an id
DP_UserError_IdUnchecked(failed) ==
    IF dp.user = <<>> THEN "No user data found. Please log in again."
    ELSE IF ~dp.user[1].parses THEN failed
    ELSE ""

\* the check every handler opens with: "" when the stored user has an id,
\* else the error the handler sets; failed names the catch block's message
DP_UserError(failed) ==
    IF dp.user = <<>> THEN "No user data found. Please log in again."
    ELSE IF ~dp.user[1].parses THEN failed
    ELSE IF dp.user[1].id = 0 THEN "Invalid user data. Please log in again."
    ELSE ""

\* the check as loadWebsiteInfo makes it, also when Generate or Apply
\* Template call it after their own request
DP_LoadError == DP_UserError("Failed to load website information: ")

\* request arguments with the template fixed to the initial one
DP_RequestArgs_Default == <<dp.user[1].id, "professional">>

\* (user.id, selectedTemplate)
DP_RequestArgs == <<dp.user[1].id, dp.selectedTemplate>>

\* loadWebsiteInfo up to its await, called by the mount effect (mount) and
\* by the refresh button, which the page shows while it is not loading
DP_loadWebsiteInfo ==
    /\ \/ dp.phase = "rendered"
       \/ dp.phase = "mounted" /\ ~dp.isLoading
    /\ LET failed == DP_UserError("Failed to load website information: ")
       IN  IF failed # ""
           THEN /\ dp' = [Mounted(dp) EXCEPT !.error = failed,
                                             !.isLoading = FALSE]
                /\ UNCHANGED tasks
           ELSE /\ Free # {}
                /\ dp' = [Mounted(dp) EXCEPT !.error = "", !.isLoading = TRUE]
                /\ Spawn(Task("loadWebsiteInfo", "getWebsiteInfo", <<>>,
                              {Req("getWebsiteInfo", <<dp.user[1].id>>)}))
    /\ NoEffect /\ DP_Only

\* loadWebsiteInfo from the await on
DP_loadWebsiteInfo_resume ==
    \E i \in Running("loadWebsiteInfo") :
       /\ \/ \E info \in WebsiteInfos :
                /\ dp' = [dp EXCEPT !.websiteInfo = <<info>>, !.isLoading = FALSE]
                /\ Settles("DigitalPresenceBuilder", i, TRUE)
          \/ /\ dp' = [dp EXCEPT
                         !.error = "Failed to load website information: ",
                         !.isLoading = FALSE]
             /\ Settles("DigitalPresenceBuilder", i, FALSE)
       /\ Finish(i)
       /\ out' = Quiet /\ DP_Only

\* a click on a template card
DP_setSelectedTemplate ==
    /\ dp.phase = "mounted"
    /\ \E id \in TemplateIds : dp' = [dp EXCEPT !.selectedTemplate = id]
    /\ UNCHANGED tasks /\ NoEffect /\ DP_Only

\* the error card's Dismiss button
DP_setError ==
    /\ dp.phase = "mounted" /\ dp.error # ""
    /\ dp' = [dp EXCEPT !.error = ""]
    /\ UNCHANGED tasks /\ NoEffect /\ DP_Only

\* a Generate whose early returns skip the reset of isGenerating
DP_handleGenerateWebsite_NoFinally ==
    /\ dp.phase = "mounted" /\ ~dp.isLoading /\ ~dp.isGenerating
    /\ LET failed == DP_UserError("Failed to generate website: ")
       IN  IF failed # ""
           THEN /\ dp' = [dp EXCEPT !.error = failed, !.isGenerating = TRUE]
                /\ UNCHANGED tasks
           ELSE /\ Free # {}
                /\ dp' = [dp EXCEPT !.error = "", !.isGenerating = TRUE]
                /\ Spawn(Task("handleGenerateWebsite", "generateWebsiteHtml",
                              <<>>, {Req("generateWebsiteHtml", DP_RequestArgs)}))
    /\ NoEffect /\ DP_Only

\* the Generate button (in the website card, disabled while isGenerating):
\* handleGenerateWebsite up to its first await
DP_handleGenerateWebsite ==
    /\ dp.phase = "mounted" /\ ~dp.isLoading /\ ~dp.isGenerating
    /\ LET failed == DP_UserError("Failed to generate website: ")
       IN  IF failed # ""
           THEN /\ dp' = [dp EXCEPT !.error = failed, !.isGenerating = FALSE]
                /\ UNCHANGED tasks
           ELSE /\ Free # {}
                /\ dp' = [dp EXCEPT !.error = "", !.isGenerating = TRUE]
                /\ Spawn(Task("handleGenerateWebsite", "generateWebsiteHtml",
                              <<>>, {Req("generateWebsiteHtml", DP_RequestArgs)}))
    /\ NoEffect /\ DP_Only

\* handleGenerateWebsite from one await to the next; the second await is
\* the loadWebsiteInfo() it calls
DP_handleGenerateWebsite_resume ==
    \E i \in Running("handleGenerateWebsite") :
       /\ \/ /\ tasks[i].pc = "generateWebsiteHtml"
             /\ \E html \in HtmlContents :
                   /\ IF html = ""
                      THEN /\ dp' = [dp EXCEPT !.isGenerating = FALSE]
                           /\ Finish(i)
                      ELSE IF DP_LoadError # ""
                      THEN /\ dp' = [dp EXCEPT !.previewHtml = html,
                                               !.error = DP_LoadError,
                                               !.isLoading = FALSE,
                                               !.isGenerating = FALSE]
                           /\ Finish(i)
                      ELSE /\ dp' = [dp EXCEPT !.previewHtml = html,
                                               !.error = "",
                                               !.isLoading = TRUE]
                           /\ Continue(i, "getWebsiteInfo",
                                  {Req("getWebsiteInfo", <<dp.user[1].id>>)})
                   /\ SettlesWith("DigitalPresenceBuilder", i, TRUE, html)
          \/ /\ tasks[i].pc = "generateWebsiteHtml"
             /\ dp' = [dp EXCEPT !.error = "Failed to generate website: ",
                                 !.isGenerating = FALSE]
             /\ Finish(i)
             /\ Settles("DigitalPresenceBuilder", i, FALSE)
          \/ /\ tasks[i].pc = "getWebsiteInfo"
             /\ \E info \in WebsiteInfos :
                   dp' = [dp EXCEPT !.websiteInfo = <<info>>,
                                    !.isLoading = FALSE,
                                    !.isGenerating = FALSE]
             /\ Finish(i)
             /\ Settles("DigitalPresenceBuilder", i, TRUE)
          \/ /\ tasks[i].pc = "getWebsiteInfo"
             /\ dp' = [dp EXCEPT
                         !.error = "Failed to load website information: ",
                         !.isLoading = FALSE,
                         !.isGenerating = FALSE]
             /\ Finish(i)
             /\ Settles("DigitalPresenceBuilder", i, FALSE)
       /\ out' = Quiet /\ DP_Only
\* the Preview button (disabled until the website has html_content):
\* handlePreviewWebsite up to its await
DP_handlePreviewWebsite ==
    /\ dp.phase = "mounted" /\ ~dp.isLoading
    /\ dp.websiteInfo # <<>> /\ dp.websiteInfo[1].html_content # ""
    /\ LET failed == DP_UserError("Failed to preview website: ")
       IN  IF failed # ""
           THEN /\ dp' = [dp EXCEPT !.error = failed]
                /\ UNCHANGED tasks
           ELSE /\ Free # {}
                /\ Spawn(Task("handlePreviewWebsite", "previewWebsite", <<>>,
                              {Req("previewWebsite", DP_RequestArgs)}))
                /\ UNCHANGED dp
    /\ NoEffect /\ DP_Only

\* handlePreviewWebsite from the await on: a non-empty page is written
\* into a new window when window.open returns one
DP_handlePreviewWebsite_resume ==
    \E i \in Running("handlePreviewWebsite") :
       /\ \/ /\ \E html \in HtmlContents :
                   /\ IF html = "" THEN out' = Quiet
                      ELSE \E opens \in {"null", "window"} :
                              out' = [Quiet EXCEPT
                                        !.page = "DigitalPresenceBuilder",
                                        !.h = "handlePreviewWebsite",
                                        !.windowOpen = opens]
                   /\ SettlesWith("DigitalPresenceBuilder", i, TRUE, html)
             /\ UNCHANGED dp
          \/ /\ dp' = [dp EXCEPT !.error = "Failed to preview website: "]
             /\ out' = Quiet
             /\ Settles("DigitalPresenceBuilder", i, FALSE)
       /\ Finish(i)
       /\ DP_Only

\* an Apply Template button that stays enabled while isGenerating
DP_handleApplyTemplate_Ungated ==
    /\ dp.phase = "mounted"
    /\ LET failed == DP_UserError("Failed to apply template: ")
       IN  IF failed # ""
           THEN /\ dp' = [dp EXCEPT !.error = failed, !.isGenerating = FALSE]
                /\ UNCHANGED tasks
           ELSE /\ Free # {}
                /\ dp' = [dp EXCEPT !.error = "", !.isGenerating = TRUE]
                /\ Spawn(Task("handleApplyTemplate", "applyWebsiteTemplate",
                              <<>>, {Req("applyWebsiteTemplate", DP_RequestArgs)}))
    /\ NoEffect /\ DP_Only

\* the Apply Template button (disabled while isGenerating):
\* handleApplyTemplate up to its first await
DP_handleApplyTemplate ==
    /\ dp.phase = "mounted" /\ ~dp.isGenerating
    /\ LET failed == DP_UserError("Failed to apply template: ")
       IN  IF failed # ""
           THEN /\ dp' = [dp EXCEPT !.error = failed, !.isGenerating = FALSE]
                /\ UNCHANGED tasks
           ELSE /\ Free # {}
                /\ dp' = [dp EXCEPT !.error = "", !.isGenerating = TRUE]
                /\ Spawn(Task("handleApplyTemplate", "applyWebsiteTemplate",
                              <<>>, {Req("applyWebsiteTemplate", DP_RequestArgs)}))
    /\ NoEffect /\ DP_Only

\* handleApplyTemplate from one await to the next; the second await is the
\* loadWebsiteInfo() it calls
DP_handleApplyTemplate_resume ==
    \E i \in Running("handleApplyTemplate") :
       /\ \/ /\ tasks[i].pc = "applyWebsiteTemplate"
             /\ IF DP_LoadError # ""
                THEN /\ dp' = [dp EXCEPT !.error = DP_LoadError,
                                         !.isLoading = FALSE,
                                         !.isGenerating = FALSE]
                     /\ Finish(i)
                ELSE /\ dp' = [dp EXCEPT !.error = "", !.isLoading = TRUE]
                     /\ Continue(i, "getWebsiteInfo",
                                 {Req("getWebsiteInfo", <<dp.user[1].id>>)})
             /\ Settles("DigitalPresenceBuilder", i, TRUE)
          \/ /\ tasks[i].pc = "applyWebsiteTemplate"
             /\ dp' = [dp EXCEPT !.error = "Failed to apply template: ",
                                 !.isGenerating = FALSE]
             /\ Finish(i)
             /\ Settles("DigitalPresenceBuilder", i, FALSE)
          \/ /\ tasks[i].pc = "getWebsiteInfo"
             /\ \E info \in WebsiteInfos :
                   dp' = [dp EXCEPT !.websiteInfo = <<info>>,
                                    !.isLoading = FALSE,
                                    !.isGenerating = FALSE]
             /\ Finish(i)
             /\ Settles("DigitalPresenceBuilder", i, TRUE)
          \/ /\ tasks[i].pc = "getWebsiteInfo"
             /\ dp' = [dp EXCEPT
                         !.error = "Failed to load website information: ",
                         !.isLoading = FALSE,
                         !.isGenerating = FALSE]
             /\ Finish(i)
             /\ Settles("DigitalPresenceBuilder", i, FALSE)
       /\ out' = Quiet /\ DP_Only

InitBuilder ==
    /\ \E user \in StoredUsers : dp = DP_Construct(user)
    /\ cp = Absent(CP_Construct(<<>>, TRUE))
    /\ cd = Absent(CD_Construct(1, <<>>))
    /\ pp = Absent(PP_Construct(<<>>))
    /\ tasks = NoTasks
    /\ out = Quiet
    /\ settled = NoSettled
    /\ api = NoApi
    /\ app = NoApp

NextBuilder ==
    \/ DP_loadWebsiteInfo
    \/ DP_loadWebsiteInfo_resume
    \/ DP_setSelectedTemplate
    \/ DP_setError
    \/ DP_handleGenerateWebsite
    \/ DP_handleGenerateWebsite_resume
    \/ DP_handlePreviewWebsite
    \/ DP_handlePreviewWebsite_resume
    \/ DP_handleApplyTemplate
    \/ DP_handleApplyTemplate_resume

SpecBuilder == InitBuilder /\ [][NextBuilder]_vars

\* the 'user' entry of localStorage is replaced or removed while the page
\* is open (a logout or login in another tab); the handlers read it anew
\* at every call
DP_storageEvent ==
    /\ dp.phase = "mounted"
    /\ \E user \in StoredUsers \ {dp.user} : dp' = [dp EXCEPT !.user = user]
    /\ UNCHANGED tasks /\ NoEffect /\ DP_Only

NextBuilderStorage ==
    \/ NextBuilder
    \/ DP_storageEvent

SpecBuilderStorage == InitBuilder /\ [][NextBuilderStorage]_vars
-----------------------------------------------------------------------------
(* ProfilePage *)

\* a UserProfile as the backend returns it
Profile(name, phone, profile_image) ==
    [name |-> name, phone |-> phone, profile_image |-> profile_image]
StoredProfiles == {Profile("n", "", ""), Profile("n", "1", "old.png")}
FieldValues == {"", "n"}
Files == {"a.png"}
ImageUrls == {"old.png", "a.png"}
BusinessTypes == {<<"retail">>}

PP_Only == UNCHANGED <<cp, cd, dp, api, app>>
PP_Shown == pp.phase = "mounted" /\ ~pp.loading
PP_Toast(h, text) ==
    out' = [Quiet EXCEPT !.page = "ProfilePage", !.h = h, !.toast = text]

\* useEffect(() => { if (userId) fetchProfileData() }, [userId]), up to the
\* first await
PP_fetchProfileData ==
    /\ pp.phase = "rendered"
    /\ IF pp.userId = <<>>
       THEN /\ pp' = Mounted(pp)
            /\ UNCHANGED tasks
       ELSE /\ pp' = [Mounted(pp) EXCEPT !.loading = TRUE]
            /\ Spawn(Task("fetchProfileData", "getProfile", <<>>,
                          {Req("getProfile", <<pp.userId>>)}))
    /\ NoEffect /\ PP_Only

\* fetchProfileData from one await to the next
PP_fetchProfileData_resume ==
    \E i \in Running("fetchProfileData") :
       \/ /\ tasks[i].pc = "getProfile"
          /\ \E profileData \in StoredProfiles :
                /\ pp' = [pp EXCEPT
                            !.profile = <<profileData>>,
                            !.formData = [name |-> profileData.name,
                                          phone |-> profileData.phone]]
                /\ SettlesWith("ProfilePage", i, TRUE, profileData)
          /\ Continue(i, "getBusinessTypes", {Req("getBusinessTypes", <<>>)})
          /\ out' = Quiet /\ PP_Only
       \/ /\ tasks[i].pc = "getBusinessTypes"
          /\ \E types \in BusinessTypes :
                pp' = [pp EXCEPT !.businessTypes = types, !.loading = FALSE]
          /\ Settles("ProfilePage", i, TRUE)
          /\ Finish(i)
          /\ out' = Quiet /\ PP_Only
       \/ /\ pp' = [pp EXCEPT !.loading = FALSE]
          /\ PP_Toast("fetchProfileData", "Failed to load profile data")
          /\ Settles("ProfilePage", i, FALSE)
          /\ Finish(i)
          /\ PP_Only

\* an onChange that builds the form data from the edited field alone
PP_handleInputChange_NoSpread ==
    /\ PP_Shown
    /\ \E field \in {"name", "phone"} : \E value \in FieldValues :
          pp' = [pp EXCEPT
                   !.formData = [[name |-> "", phone |-> ""] EXCEPT
                                    ![field] = value]]
    /\ UNCHANGED tasks /\ NoEffect /\ PP_Only

\* onChange of a form input
PP_handleInputChange ==
    /\ PP_Shown
    /\ \E field \in {"name", "phone"} : \E value \in FieldValues :
          pp' = [pp EXCEPT !.formData[field] = value]
    /\ UNCHANGED tasks /\ NoEffect /\ PP_Only

\* onChange of the file input; e.target.files may be empty
PP_handleFileChange ==
    /\ PP_Shown
    /\ \E files \in {<<>>} \cup {<<f>> : f \in Files} :
          pp' = IF files # <<>> THEN [pp EXCEPT !.selectedFile = files] ELSE pp
    /\ UNCHANGED tasks /\ NoEffect /\ PP_Only

\* onValueChange of the tabs
PP_setActiveTab ==
    /\ PP_Shown
    /\ \E tab \in {"personal", "business"} : pp' = [pp EXCEPT !.activeTab = tab]
    /\ UNCHANGED tasks /\ NoEffect /\ PP_Only

\* handleProfileImageUpload up to its await: the early return without a
\* file, else the request
PP_uploadStart ==
    /\ IF pp.selectedFile = <<>>
       THEN /\ PP_Toast("handleProfileImageUpload", "Please select an image file")
            /\ UNCHANGED <<pp, tasks>>
       ELSE /\ Free # {}
            /\ pp' = [pp EXCEPT !.uploadingImage = TRUE]
            /\ Spawn(Task("handleProfileImageUpload", "uploadProfileImage", <<>>,
                          {Req("uploadProfileImage",
                               <<pp.userId, pp.selectedFile[1]>>)}))
            /\ out' = Quiet
    /\ settled' = NoSettled /\ PP_Only

\* the Upload button (disabled without a file and while uploadingImage)
PP_handleProfileImageUpload ==
    /\ PP_Shown /\ pp.selectedFile # <<>> /\ ~pp.uploadingImage
    /\ PP_uploadStart

\* handleProfileImageUpload called as a function, whatever the button's
\* disabled attribute says
PP_handleProfileImageUpload_call ==
    /\ PP_Shown
    /\ PP_uploadStart

\* an update that leaves the displayed image as it was
PP_withImage_Kept(prev, response) == prev

\* prev ? { ...prev, profile_image: response.profile_image } : null
PP_withImage(prev, response) ==
    IF prev # <<>>
    THEN <<[prev[1] EXCEPT !.profile_image = response.profile_image]>>
    ELSE <<>>

\* handleProfileImageUpload from the await on; the backend answers with the
\* URL it stored the image under
PP_handleProfileImageUpload_resume ==
    \E i \in Running("handleProfileImageUpload") :
       /\ \/ \E url \in ImageUrls :
                LET response == [profile_image |-> url]
                IN  /\ pp' = [pp EXCEPT
                                !.profile = PP_withImage(pp.profile, response),
                                !.selectedFile = <<>>,
                                !.uploadingImage = FALSE]
                    /\ PP_Toast("handleProfileImageUpload",
                                "Profile image updated successfully")
                    /\ SettlesWith("ProfilePage", i, TRUE, response)
          \/ /\ pp' = [pp EXCEPT !.uploadingImage = FALSE]
             /\ PP_Toast("handleProfileImageUpload",
                         "Failed to upload profile image")
             /\ Settles("ProfilePage", i, FALSE)
       /\ Finish(i)
       /\ PP_Only

\* a Save Changes button that stays enabled while a save is in flight
PP_handleSaveProfile_Ungated ==
    /\ PP_Shown
    /\ Free # {}
    /\ pp' = [pp EXCEPT !.saving = TRUE]
    /\ Spawn(Task("handleSaveProfile", "updateProfile", <<>>,
                  {Req("updateProfile", <<pp.userId, pp.formData>>)}))
    /\ NoEffect /\ PP_Only

\* the Save Changes button (disabled while saving): handleSaveProfile up to
\* its await
PP_handleSaveProfile ==
    /\ PP_Shown /\ ~pp.saving
    /\ Free # {}
    /\ pp' = [pp EXCEPT !.saving = TRUE]
    /\ Spawn(Task("handleSaveProfile", "updateProfile", <<>>,
                  {Req("updateProfile", <<pp.userId, pp.formData>>)}))
    /\ NoEffect /\ PP_Only

\* handleSaveProfile from the await on; the backend answers with the
\* stored profile, whose image is the one it holds at that moment
PP_handleSaveProfile_resume ==
    \E i \in Running("handleSaveProfile") :
       /\ \/ \E r \in tasks[i].pending : \E image \in {""} \cup ImageUrls :
                LET updatedProfile ==
                        Profile(r.arg[2].name, r.arg[2].phone, image)
                IN  /\ pp' = [pp EXCEPT !.profile = <<updatedProfile>>,
                                        !.saving = FALSE]
                    /\ PP_Toast("handleSaveProfile",
                                "Profile updated successfully")
                    /\ SettlesWith("ProfilePage", i, TRUE, updatedProfile)
          \/ /\ pp' = [pp EXCEPT !.saving = FALSE]
             /\ PP_Toast("handleSaveProfile", "Failed to update profile")
             /\ Settles("ProfilePage", i, FALSE)
       /\ Finish(i)
       /\ PP_Only

\* the userId App renders the page with
PP_Props == {<<>>, <<"7">>}

InitProfile ==
    /\ \E userId \in PP_Props : pp = PP_Construct(userId)
    /\ cp = Absent(CP_Construct(<<>>, TRUE))
    /\ cd = Absent(CD_Construct(1, <<>>))
    /\ dp = Absent(DP_Construct(<<>>))
    /\ tasks = NoTasks
    /\ out = Quiet
    /\ settled = NoSettled
    /\ api = NoApi
    /\ app = NoApp

NextProfile ==
    \/ PP_fetchProfileData
    \/ PP_fetchProfileData_resume
    \/ PP_handleInputChange
    \/ PP_handleFileChange
    \/ PP_setActiveTab
    \/ PP_handleProfileImageUpload
    \/ PP_handleProfileImageUpload_resume
    \/ PP_handleSaveProfile
    \/ PP_handleSaveProfile_resume

SpecProfile == InitProfile /\ [][NextProfile]_vars

\* the page with its handlers also called directly
NextProfileHandlers ==
    \/ NextProfile
    \/ PP_handleProfileImageUpload_call

SpecProfileHandlers == InitProfile /\ [][NextProfileHandlers]_vars
-----------------------------------------------------------------------------
(* ApiService.  Every method has the shape                                 *)
(*     const response = await fetch(url, init);                            *)
(*     if (!response.ok) { const errorText = await response.text();        *)
(*                         throw new Error(...); }                         *)
(*     return await response.json();        (previewWebsite: .text())      *)
(* api is one call: its method, the await it is at, the number of fetch    *)
(* calls it has made, the response it got and how it ended.                *)

JsonMethods ==
    {"login", "getCustomerInteractions", "getCustomerDetailedInteractions",
     "createCustomerInteraction", "updateCustomerInteraction",
     "deleteCustomerInteraction", "getUpcomingFollowups", "getCustomer",
     "contactCustomer", "getReferralLink", "signup", "getProfile",
     "updateProfile", "uploadProfileImage", "getBusinessTypes",
     "createCustomer", "getCustomers", "searchCustomers", "getReferrals",
     "getReferralStats", "getRewards", "getDashboardMetrics", "getReports",
     "sendMessage", "getMessageTemplates", "getConversation", "getAIAssist",
     "generatePersonalizedMessage", "getCustomerInsights",
     "setupAutoResponses", "generateMarketingContent", "generateAIImage",
     "getWebsiteInfo", "getWebsiteTemplates", "applyWebsiteTemplate",
     "generateWebsiteHtml", "getSocialProfiles",
     "getDigitalPresenceAnalytics"}
TextMethods == {"previewWebsite"}
ApiMethods == JsonMethods \cup TextMethods

\* the responses a backend or a proxy in front of it may give
Statuses == {200, 204, 404, 500}
Bodies == {"", "<html>", "[]", "{\"id\":1}"}

\* response.json(): the value the text denotes, none when it is not JSON
ParseJson(text) ==
    IF text = "[]" THEN <<"array">>
    ELSE IF text = "{\"id\":1}" THEN <<"object">>
    ELSE <<>>

\* a success test that accepts the status 200 only
ResponseOk_200(status) == status = 200

\* response.ok
ResponseOk(status) == status \in 200..299

\* the values import.meta.env.VITE_API_BASE_URL may have in a build: unset,
\* or the URL of a deployed backend
EnvValues == {<<>>, <<"https://backend.example.com">>}

\* const API_BASE_URL
API_BASE_URL == "http://localhost:8000"

\* env: the build's VITE_API_BASE_URL; base: the base of the URL fetched
ApiCall(env, method, pc, fetches, status, body, outcome, value) ==
    [env |-> env, base |-> API_BASE_URL,
     method |-> method, pc |-> pc, fetches |-> fetches, status |-> status,
     body |-> body, outcome |-> outcome, value |-> value]

\* no call is running in a build with that environment
ApiIdle(env) == [method |-> "none", env |-> env]

Api_Only == UNCHANGED <<cp, cd, pp, dp, tasks, out, settled, app>>

\* a method is called and runs to `await fetch(...)`
Api_call ==
    /\ api.method = "none"
    /\ \E method \in ApiMethods :
          api' = ApiCall(api.env, method, "fetch", 1, 0, "", "none", "")
    /\ Api_Only

\* fetch settles: it rejects (no connection), or resolves with a response
Api_fetch ==
    /\ api.method # "none" /\ api.pc = "fetch"
    /\ \/ api' = [api EXCEPT !.pc = "done", !.outcome = "threw",
                             !.value = "TypeError"]
       \/ \E status \in Statuses : \E body \in Bodies :
             api' = [api EXCEPT !.status = status, !.body = body,
                                !.pc = IF ~ResponseOk(status) THEN "errorText"
                                       ELSE IF api.method \in TextMethods
                                       THEN "text" ELSE "json"]
    /\ Api_Only

\* `await response.text()` of the error branch, then the throw
Api_errorText ==
    /\ api.method # "none" /\ api.pc = "errorText"
    /\ api' = [api EXCEPT !.pc = "done", !.outcome = "threw", !.value = "Error"]
    /\ Api_Only

\* `await response.json()`, which rejects when the body is not JSON
Api_json ==
    /\ api.method # "none" /\ api.pc = "json"
    /\ api' = IF ParseJson(api.body) = <<>>
              THEN [api EXCEPT !.pc = "done", !.outcome = "threw",
                               !.value = "SyntaxError"]
              ELSE [api EXCEPT !.pc = "done", !.outcome = "returned",
                               !.value = ParseJson(api.body)[1]]
    /\ Api_Only

\* `await response.text()` of previewWebsite
Api_text ==
    /\ api.method # "none" /\ api.pc = "text"
    /\ api' = [api EXCEPT !.pc = "done", !.outcome = "returned",
                          !.value = api.body]
    /\ Api_Only

\* the caller has the result; the next call may begin
Api_return ==
    /\ api.method # "none" /\ api.pc = "done"
    /\ api' = ApiIdle(api.env)
    /\ Api_Only

InitApi ==
    /\ cp = Absent(CP_Construct(<<>>, TRUE))
    /\ cd = Absent(CD_Construct(1, <<>>))
    /\ pp = Absent(PP_Construct(<<>>))
    /\ dp = Absent(DP_Construct(<<>>))
    /\ tasks = NoTasks
    /\ out = Quiet
    /\ settled = NoSettled
    /\ \E env \in EnvValues : api = ApiIdle(env)
    /\ app = NoApp

NextApi ==
    \/ Api_call
    \/ Api_fetch
    \/ Api_errorText
    \/ Api_json
    \/ Api_text
    \/ Api_return

SpecApi == InitApi /\ [][NextApi]_vars

-----------------------------------------------------------------------------
(* App: the root component.  It shows LoginScreen, ProfileSetupScreen or   *)
(* one of the main screens above the navigation bar, and hands            *)
(* currentUserId to the screen as its userId prop.                         *)

\* the AppScreen values, and a string outside them that handleNavigate's
\* cast lets through
AppScreens ==
    {"dashboard", "customers", "customer-detail", "referrals", "builder",
     "analytics", "marketing", "profile"}
NavigateTargets == AppScreens \cup {"settings"}
\* the user ids LoginScreen reports and the customer ids a card carries
UserIds == {<<"7">>, <<"u">>}
CustomerIds == {0, 1, 2, 3}

\* state cells lines 18-21
App_Construct ==
    [appState |-> "login", currentScreen |-> "dashboard",
     currentUserId |-> <<>>, selectedCustomerId |-> <<>>]

App_Only == UNCHANGED <<cp, cd, pp, dp, tasks, out, settled, api>>

\* LoginScreen's onLogin
App_handleLogin ==
    /\ app.appState = "login"
    /\ \E userId \in UserIds :
          app' = [app EXCEPT !.currentUserId = userId, !.appState = "app",
                             !.currentScreen = "dashboard"]
    /\ App_Only

\* LoginScreen's onSignup
App_handleSignup ==
    /\ app.appState = "login"
    /\ app' = [app EXCEPT !.appState = "profile-setup"]
    /\ App_Only

\* ProfileSetupScreen's onComplete
App_handleProfileComplete ==
    /\ app.appState = "profile-setup"
    /\ app' = [app EXCEPT !.appState = "app", !.currentScreen = "dashboard"]
    /\ App_Only

\* onNavigate of Navigation and DashboardScreen
App_handleNavigate ==
    /\ app.appState = "app"
    /\ \E screen \in NavigateTargets : app' = [app EXCEPT !.currentScreen = screen]
    /\ App_Only

\* the screen renderCurrentScreen returns takes onViewCustomer
App_ShowsCustomersPage ==
    /\ app.appState = "app"
    /\ \/ app.currentScreen = "customers"
       \/ /\ app.currentScreen = "customer-detail"
          /\ app.selectedCustomerId \in {<<>>, <<0>>}

\* onViewCustomer of CustomersPage
App_handleViewCustomer ==
    /\ App_ShowsCustomersPage
    /\ \E customerId \in CustomerIds :
          app' = [app EXCEPT !.selectedCustomerId = <<customerId>>,
                             !.currentScreen = "customer-detail"]
    /\ App_Only

InitApp ==
    /\ app = App_Construct
    /\ cp = Absent(CP_Construct(<<>>, TRUE))
    /\ cd = Absent(CD_Construct(1, <<>>))
    /\ pp = Absent(PP_Construct(<<>>))
    /\ dp = Absent(DP_Construct(<<>>))
    /\ tasks = NoTasks
    /\ out = Quiet
    /\ settled = NoSettled
    /\ api = NoApi

NextApp ==
    \/ App_handleLogin
    \/ App_handleSignup
    \/ App_handleProfileComplete
    \/ App_handleNavigate
    \/ App_handleViewCustomer

SpecApp == InitApp /\ [][NextApp]_vars

-----------------------------------------------------------------------------
(* Two sessions side by side: one browser shows CustomersPage for one      *)
(* logged-in user, another shows CustomerDetailPage for a different user.  *)
(* Each page got its userId prop from its own App's handleLogin.           *)

\* the user ids the two sessions logged in with
SessionIds == UserIds \cup {<<"1">>, <<"b", "o", "b">>}

InitSessions ==
    /\ \E u1 \in SessionIds : \E u2 \in SessionIds \ {u1} :
          /\ cp = CP_Construct(u1, TRUE)
          /\ cd = CD_Construct(1, u2)
    /\ pp = Absent(PP_Construct(<<>>))
    /\ dp = Absent(DP_Construct(<<>>))
    /\ tasks = NoTasks
    /\ out = Quiet
    /\ settled = NoSettled
    /\ api = NoApi
    /\ app = NoApp

NextSessions ==
    \/ CP_fetchCustomers
    \/ CP_fetchCustomers_resume
    \/ CD_fetchData
    \/ CD_fetchData_resume

SpecSessions == InitSessions /\ [][NextSessions]_vars

-----------------------------------------------------------------------------
(* The four pages; App shows one of them at a time *)

Init == InitCustomers \/ InitDetail \/ InitProfile \/ InitBuilder
Next == NextCustomers \/ NextDetail \/ NextProfile \/ NextBuilder
Spec == Init /\ [][Next]_vars
-----------------------------------------------------------------------------
(* Properties of the four pages (Spec) *)

\* the page shows the message its handler sets for the request that failed
Reported ==
    \/ out.h = settled.h /\ (out.alert # "" \/ out.toast # "")
    \/ /\ settled.h = "fetchCustomers"
       /\ ~cp.loading /\ cp.error = "Failed to load customers"
    \/ /\ settled.h = "handleAddCustomer"
       /\ ~cp.loading /\ cp.error = "Failed to create customer"
    \/ /\ settled.h = "fetchData"
       /\ ~cd.loading /\ cd.error = "Failed to load customer data"
    \/ /\ settled.h = "fetchAIInsights"
       /\ CD_BodyShown /\ cd.aiError = "Failed to load AI insights"
    \/ /\ settled.page = "DigitalPresenceBuilder"
       /\ dp.error =
            CASE settled.name = "getWebsiteInfo" ->
                    "Failed to load website information: "
              [] settled.name = "generateWebsiteHtml" ->
                    "Failed to generate website: "
              [] settled.name = "previewWebsite" ->
                    "Failed to preview website: "
              [] settled.name = "applyWebsiteTemplate" ->
                    "Failed to apply template: "
              [] OTHER -> "none"

\* the two failures the pages answer with an empty list and no message
Unreported ==
    \/ /\ settled.h = "openDetails"
       /\ settled.name = "getCustomerInteractions"
       /\ cp.interactions = <<>>
    \/ /\ settled.h = "fetchData"
       /\ settled.name = "getCustomerDetailedInteractions"
       /\ cd.customerInteractions = <<>> /\ cd.error = "" /\ ~cd.loading

\* C1 as stated: every backend request that fails inside a page handler of
\* CustomersPage, CustomerDetailPage, ProfilePage or DigitalPresenceBuilder
\* leads to a user-visible message (toast, alert or on-page error text).
C1_EveryFailureReported == ~settled.ok => Reported

\* C1, amended: every backend request that fails inside a page handler
\* leads to a user-visible message, except getCustomerInteractions in
\* CustomersPage.openDetails and getCustomerDetailedInteractions in the
\* CustomerDetailPage load, whose failure shows an empty list and no message.
C1_FailureReported == ~settled.ok => Reported \/ Unreported

\* a failed delete was answered with an alert
C1_Witness ==
    /\ ~settled.ok /\ settled.name = "deleteCustomerInteraction"
    /\ out.alert = "Failed to delete interaction. Please try again."

\* C3: each user action (or mount effect) has at most one network request
\* outstanding at any moment; a handler that makes several requests issues
\* the next one only after the previous one has settled.
C3_OneOutstanding ==
    \A i \in 1..MaxTasks : Cardinality(tasks[i].pending) <= 1

\* the CustomerDetailPage load awaits its third request and the first two
\* have settled
C3_Witness ==
    \E i \in Running("fetchData") :
       /\ tasks[i].pc = "getCustomerDetailedInteractions"
       /\ tasks[i].pending =
             {Req("getCustomerDetailedInteractions", <<cd.customerId, 7>>)}
       /\ cd.customer # <<>>

-----------------------------------------------------------------------------
(* Properties of CustomerDetailPage (SpecDetail) *)

InteractionRequests ==
    OutstandingOf("createCustomerInteraction")
       \cup OutstandingOf("updateCustomerInteraction")

C5_SentOnlyComplete ==
    \A r \in InteractionRequests :
       LET data == r.arg[Len(r.arg)]
       IN  /\ cd.customer # <<>> /\ data.customer_id = cd.customer[1].id
           /\ \E k \in 1..Len(data.title) : data.title[k] \notin Space
           /\ \E k \in 1..Len(data.notes) : data.notes[k] \notin Space

C5_Submit ==
    CD_handleInteractionSubmit =>
       LET form == cd.interactionForm
           complete ==
               /\ cd.customer # <<>>
               /\ \E k \in 1..Len(form.title) : form.title[k] \notin Space
               /\ \E k \in 1..Len(form.notes) : form.notes[k] \notin Space
       IN  /\ Started("handleInteractionSubmit") # {} => complete
           /\ ~complete =>
                 /\ out'.alert # ""
                 /\ tasks' = tasks
                 /\ cd'.customerInteractions = cd.customerInteractions
                 /\ cd'.interactionDialogOpen = cd.interactionDialogOpen
                 /\ cd'.interactionForm = cd.interactionForm
                 /\ ~cd'.interactionLoading

\* C5: handleInteractionSubmit sends a create or update interaction request
\* only when a customer is loaded and both title and notes are non-blank
\* after trimming; otherwise it shows an alert, sends no request, leaves
\* customerInteractions and the dialog unchanged, and interactionLoading is
\* false when it returns.
C5_SubmitValidated == [](C5_SentOnlyComplete) /\ [][C5_Submit]_vars

\* a title of blanks was rejected with the title alert
C5_Witness ==
    /\ out.h = "handleInteractionSubmit"
    /\ out.alert = "Please enter a title for the interaction"
    /\ cd.interactionForm.title = <<" ">>
    /\ cd.customer # <<>> /\ cd.interactionDialogOpen
    /\ ~cd.interactionLoading /\ Outstanding = {}
-----------------------------------------------------------------------------
(* Properties of DigitalPresenceBuilder (SpecBuilder) *)

TemplateHandlers ==
    {"handleGenerateWebsite", "handlePreviewWebsite", "handleApplyTemplate"}
TemplateRequests ==
    OutstandingOf("generateWebsiteHtml") \cup OutstandingOf("previewWebsite")
       \cup OutstandingOf("applyWebsiteTemplate")

C10_Carried ==
    \A r \in TemplateRequests :
       /\ r.arg[2] \in {"professional", "modern", "minimal"}
       /\ dp.user # <<>> /\ dp.user[1].id # 0 /\ r.arg[1] = dp.user[1].id

C10_AtClick ==
    \A h \in TemplateHandlers : \A i \in Started(h) :
       \A r \in tasks'[i].pending :
          r.arg[1] = dp.user[1].id /\ r.arg[2] = dp.selectedTemplate

C10_PreviewHtml ==
    dp'.previewHtml # dp.previewHtml =>
       /\ settled'.name = "generateWebsiteHtml" /\ settled'.ok
       /\ settled'.body # ""
       /\ dp'.previewHtml = settled'.body

\* C10: in DigitalPresenceBuilder every generate, preview and apply request
\* carries the template id that was selected when the button was clicked
\* (one of 'professional', 'modern', 'minimal') and the id of the user
\* stored in localStorage; previewHtml is set only from a generate response
\* with non-empty html_content and is stored as returned.
C10_TemplateCarried ==
    [](C10_Carried) /\ [][C10_AtClick /\ C10_PreviewHtml]_vars

\* a second Generate is outstanding for the template selected at its click,
\* the selection has moved on, and the first response is the preview
C10_Witness ==
    /\ \E r \in OutstandingOf("generateWebsiteHtml") : r.arg = <<5, "modern">>
    /\ dp.selectedTemplate = "minimal"
    /\ dp.previewHtml = "<html>"

-----------------------------------------------------------------------------
(* Properties of ApiService (SpecApi) *)

Answered == api.method # "none" /\ api.pc = "done" /\ api.status # 0
Success == api.status >= 200 /\ api.status <= 299

C2_OneRequest == api.method # "none" => api.fetches = 1

\* C2 as stated: every ApiService method performs exactly one HTTP request
\* per call and never retries; on a 2xx response it returns the response
\* body (parsed JSON, or the raw text for previewWebsite), and on any
\* non-2xx response it throws an Error.
C2_ReturnsOn2xx ==
    /\ C2_OneRequest
    /\ Answered =>
          IF Success
          THEN /\ api.outcome = "returned"
               /\ api.method = "previewWebsite" => api.value = api.body
               /\ api.method # "previewWebsite" =>
                     <<api.value>> = ParseJson(api.body)
          ELSE api.outcome = "threw"

\* C2, amended: every ApiService method performs exactly one HTTP request
\* per call and never retries; it returns the parsed body of a 2xx response
\* whose body is JSON (previewWebsite: the raw text of any 2xx response);
\* it throws on a 2xx response whose body is not JSON, on any non-2xx
\* response, and when the request itself fails.
C2_ReturnsParsed ==
    /\ C2_OneRequest
    /\ Answered =>
          IF Success /\ api.method = "previewWebsite"
          THEN api.outcome = "returned" /\ api.value = api.body
          ELSE IF Success /\ api.body \in {"[]", "{\"id\":1}"}
          THEN api.outcome = "returned" /\ <<api.value>> = ParseJson(api.body)
          ELSE api.outcome = "threw"
    /\ api.method # "none" /\ api.pc = "done" /\ api.status = 0 =>
          api.outcome = "threw"

\* createCustomer has returned the object of a 204 response
C2_Witness ==
    /\ Answered /\ api.method = "createCustomer"
    /\ api.status = 204 /\ api.body = "{\"id\":1}"
    /\ api.outcome = "returned" /\ api.value = "object" /\ api.fetches = 1

-----------------------------------------------------------------------------
(* Properties of ProfilePage (SpecProfile, SpecProfileHandlers) *)

PP_UploadStarted ==
    PP_handleProfileImageUpload \/ PP_handleProfileImageUpload_call

C11_NoFile ==
    PP_UploadStarted /\ pp.selectedFile = <<>> =>
        /\ tasks' = tasks /\ pp' = pp
        /\ out'.toast = "Please select an image file"
        /\ ~pp'.uploadingImage

C11_Settled ==
    PP_handleProfileImageUpload_resume =>
        /\ ~pp'.uploadingImage
        /\ IF settled'.ok
           THEN /\ pp'.selectedFile = <<>>
                /\ pp.profile # <<>> =>
                      /\ pp'.profile # <<>>
                      /\ pp'.profile[1].profile_image =
                            settled'.body.profile_image
                      /\ pp'.profile[1].name = pp.profile[1].name
                      /\ pp'.profile[1].phone = pp.profile[1].phone
           ELSE /\ pp'.profile = pp.profile
                /\ pp'.selectedFile = pp.selectedFile
                /\ out'.toast = "Failed to upload profile image"

PP_Saves == Running("handleSaveProfile")

C12_Sent ==
    PP_handleSaveProfile =>
        \E i \in 1..MaxTasks :
            /\ tasks[i].h = "idle" /\ tasks'[i].h = "handleSaveProfile"
            /\ tasks'[i].pending =
                  {Req("updateProfile", <<pp.userId, pp.formData>>)}
            /\ pp.userId # <<>>

C12_Settled ==
    PP_handleSaveProfile_resume =>
        IF settled'.ok
        THEN pp'.profile = <<settled'.body>>
        ELSE /\ pp'.profile = pp.profile /\ pp'.formData = pp.formData
             /\ out'.toast = "Failed to update profile"

C12_Saving ==
    /\ pp.saving <=> PP_Saves # {}
    /\ Cardinality(PP_Saves) <= 1

\* C12: Save Changes sends the form data as it is at the click to
\* updateProfile for the page's user; on success the displayed profile is
\* exactly the response, on failure profile and form data are unchanged and
\* an error toast is shown; saving is true exactly while the one request is
\* outstanding, during which no second save starts.
C12_Save == [](C12_Saving) /\ [][C12_Sent /\ C12_Settled]_vars

\* a save of a form whose name was cleared has succeeded and is displayed
C12_Witness ==
    /\ settled.h = "handleSaveProfile" /\ settled.ok
    /\ pp.profile = <<settled.body>> /\ pp.profile[1].name = ""
    /\ pp.formData.name = "" /\ ~pp.saving

C13_Mirror ==
    pp'.profile # pp.profile =>
        /\ settled'.page = "ProfilePage" /\ settled'.ok
        /\ \/ /\ settled'.name \in {"getProfile", "updateProfile"}
              /\ pp'.profile = <<settled'.body>>
           \/ /\ settled'.name = "uploadProfileImage"
              /\ pp.profile # <<>>
              /\ pp'.profile =
                    <<[pp.profile[1] EXCEPT
                         !.profile_image = settled'.body.profile_image]>>

C13_OneField ==
    PP_handleInputChange =>
        \E field \in {"name", "phone"} :
            pp' = [pp EXCEPT !.formData[field] = pp'.formData[field]]

\* C13: the profile state changes only when a getProfile or updateProfile
\* response arrives (it becomes that response) or an uploadProfileImage
\* response arrives (its profile_image becomes the returned one);
\* handleInputChange changes one field of formData and nothing else of the
\* page's state.
C13_ProfileMirrors == [][C13_Mirror /\ C13_OneField]_vars

\* the name field has been edited away from the displayed profile's name,
\* with a file selected, the phone field kept and the business tab open
C13_Witness ==
    /\ pp.profile # <<>> /\ pp.profile[1].name = "n" /\ pp.formData.name = ""
    /\ pp.formData.phone = "1" /\ pp.profile[1].phone = "1"
    /\ pp.selectedFile # <<>> /\ pp.activeTab = "business"
    /\ settled = NoSettled /\ \A i \in 1..MaxTasks : tasks[i].h = "idle"

\* C14 as stated: the base URL of every request ApiService makes is the
\* value of the VITE_API_BASE_URL environment variable.
C14_BaseFromEnv ==
    api.method # "none" /\ api.env # <<>> => api.base = api.env[1]

-----------------------------------------------------------------------------
(* Concurrent interaction requests of CustomerDetailPage (SpecDetail) *)

CD_ListIds == Ids(cd.customerInteractions)
CD_ListIdsAfter == Ids(cd'.customerInteractions)

C15_DeleteApplied ==
    CD_handleDeleteInteraction_resume /\ settled'.ok =>
        /\ CD_ListIdsAfter \subseteq CD_ListIds
        /\ Cardinality(CD_ListIds \ CD_ListIdsAfter) <= 1

C15_SubmitApplied ==
    CD_handleInteractionSubmit_resume /\ settled'.ok =>
        /\ CD_ListIds \subseteq CD_ListIdsAfter
        /\ Cardinality(CD_ListIdsAfter \ CD_ListIds) <= 1

\* C15 as stated: whatever the order in which the responses of successful
\* create, update and delete requests arrive, each one applies its own
\* operation to the list as it then is: a delete response removes at most
\* its interaction and brings none back, a create or update response adds at
\* most its interaction and drops none.
C15_OpsApplied == [][C15_DeleteApplied /\ C15_SubmitApplied]_vars

-----------------------------------------------------------------------------
(* Overlapping requests of DigitalPresenceBuilder (SpecBuilder) *)

DP_Loads ==
    {i \in 1..MaxTasks :
        \E r \in tasks[i].pending : r.name = "getWebsiteInfo"}

\* C16 as stated, its first half: isLoading is true as long as any
\* getWebsiteInfo request is outstanding, so with two overlapping loads it
\* stays true until both have settled.
C16_LoadingUntilAllSettled == DP_Loads # {} => dp.isLoading

-----------------------------------------------------------------------------
(* Concurrent upload and save of ProfilePage (SpecProfile) *)

\* the save response is processed right after the upload response, the save
\* having been outstanding all the while
C17_SaveAfterUpload ==
    /\ settled.h = "handleProfileImageUpload" /\ settled.ok
    /\ PP_handleSaveProfile_resume /\ settled'.ok
    => pp'.profile[1].profile_image = settled.body.profile_image

\* the upload response is processed right after the save response
C17_UploadAfterSave ==
    /\ settled.h = "handleSaveProfile" /\ settled.ok
    /\ PP_handleProfileImageUpload_resume /\ settled'.ok
    => pp'.profile[1].profile_image = settled'.body.profile_image

\* C17 as stated: when an upload and a save that were outstanding together
\* have both succeeded, the displayed profile_image is the uploaded one,
\* in either order of the two responses.
C17_UploadedImageShown ==
    [][C17_SaveAfterUpload /\ C17_UploadAfterSave]_vars

-----------------------------------------------------------------------------
(* Mutual exclusion of the guarded actions (Spec) *)

RequestsOf(names) ==
    {<<i, r>> \in (1..MaxTasks) \X UNION {tasks[i].pending : i \in 1..MaxTasks} :
        r \in tasks[i].pending /\ r.name \in names}
DP_Generating ==
    Running("handleGenerateWebsite") \cup Running("handleApplyTemplate")

\* C18: at most one generateWebsiteHtml or applyWebsiteTemplate request is
\* outstanding at any time, and only while isGenerating is true, which
\* keeps Generate and Apply Template from being started; at most one
\* getCustomerInsights request is outstanding, and only while aiLoading.
C18_Exclusive ==
    /\ Cardinality(RequestsOf({"generateWebsiteHtml",
                               "applyWebsiteTemplate"})) <= 1
    /\ Cardinality(DP_Generating) <= 1
    /\ DP_Generating # {} => dp.isGenerating
    /\ Cardinality(RequestsOf({"getCustomerInsights"})) <= 1
    /\ RequestsOf({"getCustomerInsights"}) # {} => cd.aiLoading

\* an applyWebsiteTemplate request is outstanding beside the mount load
C18_Witness ==
    /\ dp.isGenerating
    /\ RequestsOf({"applyWebsiteTemplate"}) # {}
    /\ Running("loadWebsiteInfo") # {}

-----------------------------------------------------------------------------
(* Rendering of CustomersPage after a rejected submission (SpecCustomers) *)

\* C19 as stated: once handleAddCustomer has rejected a submission for a
\* missing name or contact_info, the add-customer form is still shown and
\* shows the validation message inline.
C19_FormKept ==
    cp.error = "Name and contact info are required" =>
        CP_FormShown /\ CP_InlineError

-----------------------------------------------------------------------------
(* Properties of App (SpecApp) *)

\* C20 as stated: whenever appState is 'app', currentUserId is a non-empty
\* user id.
C20_UserIdInApp == app.appState = "app" => app.currentUserId # <<>>

-----------------------------------------------------------------------------
(* The loading spinner of ProfilePage (SpecProfile) *)

\* C21 as stated: once ProfilePage has mounted and every request of its
\* load has settled, loading is false, whatever userId App passed.
C21_LoadingEnds ==
    pp.phase = "mounted" /\ Running("fetchProfileData") = {} => ~pp.loading

-----------------------------------------------------------------------------
(* The user_id two sessions send (SpecSessions) *)

\* the user_id values outstanding requests of the handler carry
SentUserIds(h, name, k) ==
    {r.arg[k] : r \in {r \in UNION {tasks[i].pending : i \in Running(h)} :
                          r.name = name}}

\* C22 as stated: two sessions logged in with different user ids never
\* send the same numeric user_id: the getCustomers request of the one and
\* the detailed-interactions request of the other carry different values.
C22_DistinctUserIds ==
    cp.userId # cd.userId =>
        SentUserIds("fetchCustomers", "getCustomers", 1)
          \cap SentUserIds("fetchData", "getCustomerDetailedInteractions", 2)
        = {}

-----------------------------------------------------------------------------
(* The load of CustomerDetailPage (SpecSessions) *)

C23_DetailedFails ==
    settled'.name = "getCustomerDetailedInteractions" /\ ~settled'.ok =>
        /\ cd'.error = "" /\ cd'.customerInteractions = <<>>
        /\ cd'.customer = cd.customer /\ cd.customer # <<>>
        /\ cd'.interactions = cd.interactions

C23_BasicFails ==
    settled'.name \in {"getCustomer", "getCustomerInteractions"}
      /\ ~settled'.ok =>
        cd'.error = "Failed to load customer data"

C23_Finished ==
    Running("fetchData") # {} /\ Running("fetchData")' = {} => ~cd'.loading

\* C23: when only the detailed-interactions request of the load fails, error
\* stays empty, customerInteractions is empty and the customer and the
\* message interactions fetched before stay; when getCustomer or
\* getCustomerInteractions fails, error is 'Failed to load customer data';
\* loading is false whenever the load has finished.
C23_Load ==
    [][CD_fetchData_resume =>
          C23_DetailedFails /\ C23_BasicFails /\ C23_Finished]_vars

\* the load has finished with only its detailed-interactions request failed
C23_Witness ==
    /\ settled.name = "getCustomerDetailedInteractions" /\ ~settled.ok
    /\ cd.customer # <<>> /\ cd.interactions # <<>>
    /\ cd.customerInteractions = <<>> /\ cd.error = "" /\ ~cd.loading
    /\ Running("fetchData") = {}

-----------------------------------------------------------------------------
(* The result of an interaction submit (SpecDetail) *)

C24_Edited ==
    LET old == cd.customerInteractions
        new == cd'.customerInteractions
    IN  /\ Len(new) = Len(old)
        /\ \A k \in 1..Len(old) :
              /\ new[k].id = old[k].id
              /\ cd.currentInteraction # <<old[k].id>> => new[k] = old[k]

C24_Created ==
    LET old == cd.customerInteractions
        new == cd'.customerInteractions
    IN  /\ Len(new) = Len(old) + 1
        /\ SubSeq(new, 2, Len(new)) = old

C24_Submitted ==
    CD_handleInteractionSubmit_resume =>
        IF settled'.ok
        THEN /\ settled'.name = "updateCustomerInteraction" => C24_Edited
             /\ settled'.name = "createCustomerInteraction" => C24_Created
             /\ ~cd'.interactionDialogOpen
             /\ cd'.interactionForm = EmptyInteractionForm
        ELSE /\ cd'.customerInteractions = cd.customerInteractions
             /\ cd'.interactionDialogOpen = cd.interactionDialogOpen

-----------------------------------------------------------------------------
(* The result of handleAddCustomer (SpecCustomers) *)

C25_Added ==
    CP_handleAddCustomer_resume =>
        IF settled'.ok
        THEN /\ Len(cp'.customers) = Len(cp.customers) + 1
             /\ SubSeq(cp'.customers, 1, Len(cp.customers)) = cp.customers
             /\ cp'.customers[Len(cp'.customers)] = settled'.body
             /\ cp'.newCustomer =
                   [name |-> <<>>, contact_info |-> <<>>, notes |-> <<>>]
             /\ ~cp'.showAddForm /\ cp'.error = ""
        ELSE /\ cp'.customers = cp.customers
             /\ cp'.newCustomer = cp.newCustomer
             /\ cp'.error = "Failed to create customer"

\* C25: a successful handleAddCustomer appends the returned customer to the
\* end of the customers list as it is, keeps the existing entries and their
\* order, empties the form, hides it and clears the error; a failed one
\* leaves list and form contents and sets 'Failed to create customer'; the
\* flag loading is false after both.
C25_AddResult ==
    [][C25_Added /\ (CP_handleAddCustomer_resume => ~cp'.loading)]_vars

\* a third customer has been appended behind the two loaded ones
C25_Witness ==
    /\ settled.h = "handleAddCustomer" /\ settled.ok
    /\ Len(cp.customers) = 3 /\ cp.customers[1] = Al /\ cp.customers[2] = Bo
    /\ cp.customers[3] = settled.body /\ cp.customers[3].id = 3
    /\ ~cp.showAddForm /\ cp.error = "" /\ cp.newCustomer.name = <<>>

-----------------------------------------------------------------------------
(* Release of the busy flags (Spec) *)

\* an invocation of the handler has run to its end in this step: a
\* suspended one has finished, or the one started returned without a request
Finished(h) == Cardinality(Running(h)') < Cardinality(Running(h))
Returned(Start) == Start /\ tasks' = tasks

C26_Customers ==
    \/ Finished("fetchCustomers") \/ Finished("handleAddCustomer")
    \/ Returned(CP_handleAddCustomer)
    => ~cp'.loading

C26_Profile ==
    /\ Finished("handleSaveProfile") => ~pp'.saving
    /\ Finished("handleProfileImageUpload") => ~pp'.uploadingImage

C26_Builder ==
    /\ Finished("loadWebsiteInfo") \/ Returned(DP_loadWebsiteInfo)
       => ~dp'.isLoading
    /\ \/ Finished("handleGenerateWebsite") \/ Finished("handleApplyTemplate")
       \/ Returned(DP_handleGenerateWebsite) \/ Returned(DP_handleApplyTemplate)
       => ~dp'.isGenerating

C26_Detail ==
    /\ Finished("fetchData") \/ Returned(CD_fetchData) => ~cd'.loading
    /\ Finished("fetchAIInsights") \/ Returned(CD_fetchAIInsights)
       => ~cd'.aiLoading
    /\ Finished("handleInteractionSubmit") \/ Returned(CD_handleInteractionSubmit)
       => ~cd'.interactionLoading

\* C26: when a handler that sets a busy flag has run to its end (after a
\* success, a failed request, malformed stored user data, or an early return
\* on validation or missing data) its flag is false.
C26_FlagsReleased ==
    [][C26_Customers /\ C26_Profile /\ C26_Builder /\ C26_Detail]_vars

\* Generate has ended on stored user data that is not JSON
C26_Witness ==
    /\ dp.phase = "mounted" /\ dp.user # <<>> /\ ~dp.user[1].parses
    /\ dp.error = "Failed to generate website: "
    /\ ~dp.isGenerating /\ ~dp.isLoading

\* ---------------------------------------------------------------------
\* C27  DigitalPresenceBuilder: when localStorage holds no 'user' entry,
\* or the stored user has no id, each of load, generate, preview and
\* apply sends no backend request, sets the error to 'No user data
\* found. Please log in again.' or 'Invalid user data. Please log in
\* again.' respectively, and leaves websiteInfo and previewHtml as they
\* were.  The load that Generate and Apply Template call after their own
\* request is held to the same (previewHtml then holds the page that
\* Generate has just received).
C27_NoUser == dp.user = <<>>
C27_NoId == dp.user # <<>> /\ dp.user[1].parses /\ dp.user[1].id = 0
C27_Message ==
    IF C27_NoUser THEN "No user data found. Please log in again."
    ELSE "Invalid user data. Please log in again."
C27_Called ==
    \/ DP_loadWebsiteInfo
    \/ DP_handleGenerateWebsite
    \/ DP_handlePreviewWebsite
    \/ DP_handleApplyTemplate
C27_NestedLoad ==
    /\ DP_handleGenerateWebsite_resume \/ DP_handleApplyTemplate_resume
    /\ settled'.ok
    /\ settled'.name \in {"generateWebsiteHtml", "applyWebsiteTemplate"}
    /\ settled'.name = "generateWebsiteHtml" => settled'.body # ""
C27_Refused ==
    /\ (C27_NoUser \/ C27_NoId) /\ C27_Called
       => /\ tasks' = tasks
          /\ dp'.error = C27_Message
          /\ dp'.websiteInfo = dp.websiteInfo
          /\ dp'.previewHtml = dp.previewHtml
    /\ (C27_NoUser \/ C27_NoId) /\ C27_NestedLoad
       => /\ Finished("handleGenerateWebsite")
             \/ Finished("handleApplyTemplate")
          /\ dp'.error = C27_Message
          /\ dp'.websiteInfo = dp.websiteInfo
C27_NoRequestWithoutUser == [][C27_Refused]_vars
\* the stored user is gone while the page shows a generated website, and
\* a handler has refused to run
C27_Witness ==
    /\ dp.phase = "mounted" /\ C27_NoUser
    /\ dp.websiteInfo # <<>> /\ dp.websiteInfo[1].html_content # ""
    /\ dp.error = "No user data found. Please log in again."
    /\ tasks = NoTasks

\* ---------------------------------------------------------------------
\* C28  CustomerDetailPage: in every reachable state isEditMode is true
\* exactly when currentInteraction is non-null, whatever add, edit,
\* schedule-follow-up, submit, cancel and delete actions came before;
\* currentInteraction is only ever set by opening an interaction of the
\* list for editing, and an update request is sent only in edit mode and
\* only for that interaction.
C28_Paired == cd.isEditMode <=> cd.currentInteraction # <<>>
C28_OpenedByEdit ==
    cd'.currentInteraction # <<>> /\ cd'.currentInteraction # cd.currentInteraction
    => /\ CD_handleEditInteraction
       /\ \E k \in 1..Len(cd.customerInteractions) :
             cd'.currentInteraction = <<cd.customerInteractions[k].id>>
C28_UpdateSent ==
    \A i \in 1..MaxTasks :
       /\ CD_handleInteractionSubmit
       /\ tasks'[i] # tasks[i] /\ tasks'[i].h = "handleInteractionSubmit"
       /\ tasks'[i].pc = "updateCustomerInteraction"
       => /\ cd.isEditMode
          /\ \A r \in tasks'[i].pending : r.arg[1] = cd.currentInteraction[1]
C28_NoUpdateOutsideEdit ==
    CD_handleInteractionSubmit /\ ~cd.isEditMode
    => RequestsOf({"updateCustomerInteraction"})'
          = RequestsOf({"updateCustomerInteraction"})
C28_EditMode ==
    [][/\ C28_Paired /\ C28_Paired'
       /\ C28_OpenedByEdit
       /\ C28_UpdateSent
       /\ C28_NoUpdateOutsideEdit]_vars
\* an update is in flight for the interaction that is open for editing
C28_Witness ==
    /\ cd.isEditMode /\ cd.currentInteraction # <<>>
    /\ \E i \in Running("handleInteractionSubmit") :
          /\ tasks[i].pc = "updateCustomerInteraction"
          /\ \A r \in tasks[i].pending : r.arg[1] = cd.currentInteraction[1]
=============================================================================
